---- MODULE Spec2Model ----
(***************************************************************************)
(* Interactive narrative creator: the persistent entity store              *)
(* (server/app/repositories.py over the tables of server/app/database.py), *)
(* its story-edit history ledger with snapshot / rollback, and the         *)
(* in-memory NarrativeGraph (client/utils/narrative_graph.py).             *)
(*                                                                         *)
(* Identifiers are uuid4 strings in the program; here they are positive    *)
(* integers handed out by per-table counters, so an identifier is never    *)
(* reused.  Null stands for Python's None / SQL NULL.  Free-text columns   *)
(* are represented by their length (the only thing the restore path        *)
(* inspects: it truncates).  The database is PostgreSQL (database.py):     *)
(* primary keys are unique, foreign keys are enforced, and a failed        *)
(* statement aborts the enclosing transaction until it is rolled back.     *)
(***************************************************************************)
EXTENDS Integers, Sequences, FiniteSets, TLC

Null == 0

Projects == {"p1"}

\* A second project of another author, for the runs with two projects.
OtherProjects == {"p2"}

AllProjects == Projects \cup OtherProjects

\* ---- bounds of the model ------------------------------------------------
\* Identifiers available per table: for the entity-store runs (SpecEntity),
\* for the rollback runs (Spec) and for the ledger runs (SpecHist).
MaxNodes == 2
MaxEvents == 1
MaxActions == 1
MaxBindings == 1
RollbackNodes == 1
MaxSnaps == 2
HistNodes == 1
HistSnaps == 6
\* Nodes, events and bindings of the in-memory graph (SpecGraph).
GraphNodes == 3
GraphEvents == 1
GraphBindings == 2
\* Node and snapshot identifiers of the runs with two projects (SpecShared).
SharedNodes == 1
SharedSnaps == 2
\* a project of two nodes, captured and rolled back
TwoPassNodes == 2
TwoPassSnaps == 2
\* two projects whose start nodes are chosen among all nodes
StartNodes == 2
StartSnaps == 2
\* two projects whose bindings can share an action and cross projects
FrameNodes == 2
FrameBindings == 2
FrameSnaps == 2
\* one project in which two bindings can carry the same action
ShareNodes == 2
ShareBindings == 2
ShareSnaps == 2

\* ---- program constants --------------------------------------------------
KeepRecent == 4
HistoryLimit == 5
SceneLimit == 2000

SceneLens == {1, SceneLimit + 1}

VARIABLES
    projStart,   \* NarrativeProject.start_node_id, per project
    nodes,       \* rows of narrative_nodes
    events,      \* rows of narrative_events
    actions,     \* rows of actions
    bindings,    \* rows of action_bindings
    history,     \* rows of story_edit_history, in created_at order (oldest first)
    nextId,      \* next fresh identifier per table
    cap,         \* identifiers available per table in this run
    graph,       \* the in-memory NarrativeGraph of the client
    calls,       \* per caller, the request it is in the middle of
    last         \* the most recent call and what it returned

vars == <<projStart, nodes, events, actions, bindings, history, nextId, cap, graph, calls,
          last>>

\* ---- helpers --------------------------------------------------------------
Min(a, b) == IF a <= b THEN a ELSE b

Ids(rows) == {r.id : r \in rows}

RECURSIVE SetToSeq(_)
SetToSeq(S) ==
    IF S = {} THEN <<>>
    ELSE LET m == CHOOSE x \in S : \A y \in S : x <= y
         IN <<m>> \o SetToSeq(S \ {m})

Row(rows, i) == CHOOSE r \in rows : r.id = i

NoFault == [step |-> "none", id |-> Null]

Call(op, ok, args, fault) == [op |-> op, ok |-> ok, args |-> args, fault |-> fault]

\* The live tables as one value.
Db == [start |-> projStart, nodes |-> nodes, events |-> events,
       actions |-> actions, bindings |-> bindings]

\* ---- referential integrity as PostgreSQL enforces it ---------------------
ForeignKeysHold(db) ==
    /\ \A p \in AllProjects : db.start[p] = Null \/ db.start[p] \in Ids(db.nodes)
    /\ \A e \in db.events : e.node \in Ids(db.nodes)
    /\ \A a \in db.actions : a.event = Null \/ a.event \in Ids(db.events)
    /\ \A b \in db.bindings :
          /\ b.action \in Ids(db.actions)
          /\ b.source \in Ids(db.nodes)
          /\ b.tnode = Null \/ b.tnode \in Ids(db.nodes)
          /\ b.tevent = Null \/ b.tevent \in Ids(db.events)

EntityCap == [node |-> MaxNodes, event |-> MaxEvents, action |-> MaxActions,
              binding |-> MaxBindings, snap |-> 0]
RollbackCap == [node |-> RollbackNodes, event |-> MaxEvents, action |-> MaxActions,
                binding |-> MaxBindings, snap |-> MaxSnaps]
HistCap == [node |-> HistNodes, event |-> 0, action |-> 0, binding |-> 0, snap |-> HistSnaps]
NoCap == [node |-> 0, event |-> 0, action |-> 0, binding |-> 0, snap |-> 0]
SharedCap == [node |-> SharedNodes, event |-> 0, action |-> 0, binding |-> 0,
              snap |-> SharedSnaps]
TwoPassCap == [node |-> TwoPassNodes, event |-> MaxEvents, action |-> MaxActions,
               binding |-> MaxBindings, snap |-> TwoPassSnaps]

\* NarrativeGraph.__init__: the title given, no nodes, no start node, empty
\* metadata (a dict, here the set of its items).  `next` hands out the uuid4
\* defaults of Node.id, Event.id and Action.id.
EmptyGraph == [title |-> "Untitled Narrative", start |-> Null, nodes |-> <<>>,
               metadata |-> {},
               next |-> [node |-> 1, event |-> 1, action |-> 1]]

\* Two sessions, each serving one request at a time.  A request in progress
\* is its position, its project, the snapshot it was asked for, the ledger
\* rows it has read for deletion, the document it has captured and the
\* document of the snapshot it is rolling back to.
Callers == {1, 2}

Idle == [pc |-> "idle", project |-> "", sid |-> Null, old |-> {},
         doc |-> [start |-> Null, nodes |-> {}],
         target |-> [start |-> Null, nodes |-> {}]]

InitStore ==
    /\ projStart = [p \in AllProjects |-> Null]
    /\ nodes = {}
    /\ events = {}
    /\ actions = {}
    /\ bindings = {}
    /\ history = <<>>
    /\ nextId = [node |-> 1, event |-> 1, action |-> 1, binding |-> 1, snap |-> 1]
    /\ graph = EmptyGraph
    /\ calls = [c \in Callers |-> Idle]
    /\ last = Call("init", TRUE, <<>>, NoFault)

Init == InitStore /\ cap = RollbackCap
InitEntity == InitStore /\ cap = EntityCap
InitHist == InitStore /\ cap = HistCap
InitGraph == InitStore /\ cap = NoCap
InitShared == InitStore /\ cap = SharedCap
StartCap == [node |-> StartNodes, event |-> 0, action |-> 0, binding |-> 0,
             snap |-> StartSnaps]
FrameCap == [node |-> FrameNodes, event |-> MaxEvents, action |-> MaxActions,
             binding |-> FrameBindings, snap |-> FrameSnaps]
ShareCap == [node |-> ShareNodes, event |-> MaxEvents, action |-> MaxActions,
             binding |-> ShareBindings, snap |-> ShareSnaps]
InitTwoPass == InitStore /\ cap = TwoPassCap
InitShare == InitStore /\ cap = ShareCap
InitFrame == InitStore /\ cap = FrameCap
InitStart == InitStore /\ cap = StartCap

\* ---- NodeRepository -------------------------------------------------------
CreateNode(p, scene) ==
    /\ nextId.node <= cap.node
    /\ nodes' = nodes \cup {[id |-> nextId.node, project |-> p, scene |-> scene]}
    /\ nextId' = [nextId EXCEPT !.node = @ + 1]
    /\ last' = Call("create_node", TRUE, <<>>, NoFault)
    /\ UNCHANGED <<calls, cap, graph, projStart, events, actions, bindings, history>>

\* update_node: only the supplied fields change (the scene here).
UpdateNode(n, scene) ==
    /\ n \in Ids(nodes)
    /\ nodes' = {IF r.id = n THEN [r EXCEPT !.scene = scene] ELSE r : r \in nodes}
    /\ last' = Call("update_node", TRUE, <<>>, NoFault)
    /\ UNCHANGED <<calls, cap, graph, projStart, events, actions, bindings, history, nextId>>

\* What session.delete(node) removes through the ORM cascades of database.py:
\* the node, its events, the actions attached to those events, the node's
\* outgoing bindings and the bindings of the removed actions.
CascadeDeleteNode(db, n) ==
    LET evs == {e.id : e \in {x \in db.events : x.node = n}}
        acts == {a.id : a \in {x \in db.actions : x.event \in evs}}
    IN [db EXCEPT !.nodes = {r \in @ : r.id # n},
                  !.events = {e \in @ : e.node # n},
                  !.actions = {a \in @ : a.id \notin acts},
                  !.bindings = {b \in @ : b.source # n /\ b.action \notin acts}]

\* delete_node: False when the node is unknown; the commit raises
\* IntegrityError (nothing changes) when a row that is not part of the cascade
\* still references the node or one of its events.
DeleteNode(n) ==
    /\ n \in 1..cap.node
    /\ LET db2 == CascadeDeleteNode(Db, n)
           found == n \in Ids(nodes)
           ok == found /\ ForeignKeysHold(db2)
       IN /\ nodes' = IF ok THEN db2.nodes ELSE nodes
          /\ events' = IF ok THEN db2.events ELSE events
          /\ actions' = IF ok THEN db2.actions ELSE actions
          /\ bindings' = IF ok THEN db2.bindings ELSE bindings
          /\ last' = Call("delete_node", ok, <<n>>,
                          IF found /\ ~ok THEN [step |-> "integrity", id |-> n] ELSE NoFault)
    /\ UNCHANGED <<calls, cap, graph, projStart, history, nextId>>

\* NarrativeRepository.update_project(project_id, start_node_id = n), as
\* save_narrative_graph and init_db call it.
SetStartNode(p, n) ==
    /\ n \in Ids(nodes)
    /\ projStart' = [projStart EXCEPT ![p] = n]
    /\ last' = Call("set_start_node", TRUE, <<>>, NoFault)
    /\ UNCHANGED <<calls, cap, graph, nodes, events, actions, bindings, history, nextId>>

\* ---- EventRepository ------------------------------------------------------
CreateEvent(n) ==
    /\ nextId.event <= cap.event
    /\ n \in Ids(nodes)
    /\ events' = events \cup {[id |-> nextId.event, node |-> n]}
    /\ nextId' = [nextId EXCEPT !.event = @ + 1]
    /\ last' = Call("create_event", TRUE, <<>>, NoFault)
    /\ UNCHANGED <<calls, cap, graph, projStart, nodes, actions, bindings, history>>

CascadeDeleteEvent(db, e) ==
    LET acts == {a.id : a \in {x \in db.actions : x.event = e}}
    IN [db EXCEPT !.events = {r \in @ : r.id # e},
                  !.actions = {a \in @ : a.id \notin acts},
                  !.bindings = {b \in @ : b.action \notin acts}]

DeleteEvent(e) ==
    /\ e \in Ids(events)
    /\ LET db2 == CascadeDeleteEvent(Db, e)
           ok == ForeignKeysHold(db2)
       IN /\ events' = IF ok THEN db2.events ELSE events
          /\ actions' = IF ok THEN db2.actions ELSE actions
          /\ bindings' = IF ok THEN db2.bindings ELSE bindings
          /\ last' = Call("delete_event", ok, <<e>>,
                          IF ok THEN NoFault ELSE [step |-> "integrity", id |-> e])
    /\ UNCHANGED <<calls, cap, graph, projStart, nodes, history, nextId>>

\* ---- ActionRepository -----------------------------------------------------
CreateAction(isKey, e) ==
    /\ nextId.action <= cap.action
    /\ e = Null \/ e \in Ids(events)
    /\ actions' = actions \cup {[id |-> nextId.action, is_key |-> isKey, event |-> e]}
    /\ nextId' = [nextId EXCEPT !.action = @ + 1]
    /\ last' = Call("create_action", TRUE, <<>>, NoFault)
    /\ UNCHANGED <<calls, cap, graph, projStart, nodes, events, bindings, history>>

UpdateAction(a, isKey) ==
    /\ a \in Ids(actions)
    /\ actions' = {IF r.id = a THEN [r EXCEPT !.is_key = isKey] ELSE r : r \in actions}
    /\ last' = Call("update_action", TRUE, <<>>, NoFault)
    /\ UNCHANGED <<calls, cap, graph, projStart, nodes, events, bindings, history, nextId>>

DeleteAction(a) ==
    /\ a \in Ids(actions)
    /\ actions' = {r \in actions : r.id # a}
    /\ bindings' = {b \in bindings : b.action # a}
    /\ last' = Call("delete_action", TRUE, <<>>, NoFault)
    /\ UNCHANGED <<calls, cap, graph, projStart, nodes, events, history, nextId>>

\* The rule of ActionBinding.validate, on the stored columns.
ValidShape(isKey, tnode, tevent) ==
    IF isKey THEN tnode # Null /\ tevent = Null
    ELSE tevent # Null /\ tnode = Null

\* POST /action-bindings -> ActionRepository.create_action_binding: the
\* endpoint looks up the source node and the action, the repository inserts
\* the row as given; the commit fails only on a dangling foreign key.
CreateActionBinding(a, src, tn, te) ==
    /\ nextId.binding <= cap.binding
    /\ a \in Ids(actions)
    /\ src \in Ids(nodes)
    /\ LET row == [id |-> nextId.binding, action |-> a, source |-> src,
                   tnode |-> tn, tevent |-> te]
           ok == ForeignKeysHold([Db EXCEPT !.bindings = @ \cup {row}])
       IN /\ bindings' = IF ok THEN bindings \cup {row} ELSE bindings
          /\ nextId' = IF ok THEN [nextId EXCEPT !.binding = @ + 1] ELSE nextId
          /\ last' = Call("create_action_binding", ok, <<a, tn, te>>,
                          IF ok THEN NoFault ELSE [step |-> "integrity", id |-> Null])
    /\ UNCHANGED <<calls, cap, graph, projStart, nodes, events, actions, history>>

\* PUT /action-bindings/{id}: fields sent as None are dropped, the others are
\* written as given.
UpdateActionBinding(b, tn, te) ==
    /\ b \in Ids(bindings)
    /\ LET old == Row(bindings, b)
           row == [old EXCEPT !.tnode = IF tn # Null THEN tn ELSE @,
                              !.tevent = IF te # Null THEN te ELSE @]
           new == (bindings \ {old}) \cup {row}
           ok == ForeignKeysHold([Db EXCEPT !.bindings = new])
       IN /\ bindings' = IF ok THEN new ELSE bindings
          /\ last' = Call("update_action_binding", ok, <<b, tn, te>>,
                          IF ok THEN NoFault ELSE [step |-> "integrity", id |-> Null])
    /\ UNCHANGED <<calls, cap, graph, projStart, nodes, events, actions, history, nextId>>

DeleteActionBinding(b) ==
    /\ b \in Ids(bindings)
    /\ bindings' = {r \in bindings : r.id # b}
    /\ last' = Call("delete_action_binding", TRUE, <<>>, NoFault)
    /\ UNCHANGED <<calls, cap, graph, projStart, nodes, events, actions, history, nextId>>

NodeRefs == {Null} \cup (1..cap.node)
EventRefs == {Null} \cup (1..cap.event)

NextEntity ==
    \/ \E p \in Projects : \E sc \in SceneLens : CreateNode(p, sc)
    \/ \E n \in 1..cap.node : \E sc \in SceneLens : UpdateNode(n, sc)
    \/ \E n \in 1..cap.node : DeleteNode(n)
    \/ \E p \in Projects : \E n \in 1..cap.node : SetStartNode(p, n)
    \/ \E n \in 1..cap.node : CreateEvent(n)
    \/ \E e \in 1..cap.event : DeleteEvent(e)
    \/ \E k \in BOOLEAN : \E e \in EventRefs : CreateAction(k, e)
    \/ \E a \in 1..cap.action : \E k \in BOOLEAN : UpdateAction(a, k)
    \/ \E a \in 1..cap.action : DeleteAction(a)
    \/ \E a \in 1..cap.action : \E src \in 1..cap.node :
          \E tn \in NodeRefs : \E te \in EventRefs : CreateActionBinding(a, src, tn, te)
    \/ \E b \in 1..cap.binding : \E tn \in NodeRefs : \E te \in EventRefs :
          UpdateActionBinding(b, tn, te)
    \/ \E b \in 1..cap.binding : DeleteActionBinding(b)

\* ---- StoryHistoryRepository: snapshot documents --------------------------
\* _create_current_snapshot: project_info.start_node_id and, per node of the
\* project, its scalar fields, its events (without their actions) and its
\* outgoing bindings, each with a copy of the bound action's id and flag.
NodeDocument(db, n) ==
    [id |-> n.id,
     scene |-> n.scene,
     events |-> {e.id : e \in {x \in db.events : x.node = n.id}},
     actions |-> {[binding_id |-> b.id,
                   action |-> [id |-> b.action,
                               is_key |-> Row(db.actions, b.action).is_key],
                   tnode |-> b.tnode,
                   tevent |-> b.tevent] : b \in {x \in db.bindings : x.source = n.id}}]

CreateCurrentSnapshot(db, p) ==
    [start |-> db.start[p],
     nodes |-> {NodeDocument(db, n) : n \in {m \in db.nodes : m.project = p}}]

\* ---- StoryHistoryRepository: the ledger ----------------------------------
EntriesOf(h, p) == SelectSeq(h, LAMBDA e : e.project = p)

\* order_by(created_at.desc()) over rows kept in created_at order.
RECURSIVE Reverse(_)
Reverse(s) == IF s = <<>> THEN <<>> ELSE Reverse(Tail(s)) \o <<Head(s)>>

\* A history query that returns the oldest entries first.
GetProjectHistoryOldestFirst(h, p) ==
    LET oldestFirst == EntriesOf(h, p)
    IN SubSeq(oldestFirst, 1, Min(Len(oldestFirst), HistoryLimit))

\* get_project_history: newest first, at most HistoryLimit entries.
GetProjectHistory(h, p) ==
    LET newestFirst == Reverse(EntriesOf(h, p))
    IN SubSeq(newestFirst, 1, Min(Len(newestFirst), HistoryLimit))

\* A cleanup that skips one entry more than KeepRecent.
OldEntryIdsSkipsOneMore(h, p) ==
    LET newestFirst == Reverse(EntriesOf(h, p))
    IN {newestFirst[i].id : i \in (KeepRecent + 2)..Len(newestFirst)}

\* A cleanup that skips one entry fewer than KeepRecent.
OldEntryIdsSkipsOneLess(h, p) ==
    LET newestFirst == Reverse(EntriesOf(h, p))
    IN {newestFirst[i].id : i \in KeepRecent..Len(newestFirst)}

\* _cleanup_old_history: order by created_at desc, offset(KeepRecent), delete
\* what is left.
OldEntryIds(h, p) ==
    LET newestFirst == Reverse(EntriesOf(h, p))
    IN {newestFirst[i].id : i \in (KeepRecent + 1)..Len(newestFirst)}

CleanupOldHistory(h, p) == SelectSeq(h, LAMBDA e : e.id \notin OldEntryIds(h, p))

\* A save_snapshot that inserts the new entry first and cleans up afterwards.
SaveSnapshotInsertsFirst(h, p, sid, doc, op) ==
    CleanupOldHistory(Append(h, [id |-> sid, project |-> p, op |-> op, doc |-> doc]), p)

\* A save_snapshot that also writes the new document into the entries it keeps.
SaveSnapshotRewritesDocs(h, p, sid, doc, op) ==
    LET kept == CleanupOldHistory(h, p)
    IN Append([i \in 1..Len(kept) |-> [kept[i] EXCEPT !.doc = doc]],
              [id |-> sid, project |-> p, op |-> op, doc |-> doc])

\* save_snapshot: clean up, then insert the new entry.
SaveSnapshot(h, p, sid, doc, op) ==
    Append(CleanupOldHistory(h, p), [id |-> sid, project |-> p, op |-> op, doc |-> doc])

\* ---- StoryHistoryRepository: rollback ------------------------------------
\* A transaction in progress: the tables as the statements so far left them,
\* and whether a statement has failed (PostgreSQL then refuses every further
\* statement of the transaction).
Tx(db) == [db |-> db, aborted |-> FALSE, raised |-> FALSE]

Hits(fault, step, i) == fault.step = step /\ fault.id = i

CurrentNodes(db, p) == {n.id : n \in {m \in db.nodes : m.project = p}}

EventIdsOf(db, ns) == {e.id : e \in {x \in db.events : x.node \in ns}}

\* ---- StoryHistoryRepository: the capture, statement by statement ---------
\* _create_current_snapshot with its try blocks.  A statement that can fail
\* is a query (the events of a node, the bindings of a node, the lazy load of
\* binding.action) or the building of a dict (one event, one binding, one
\* node).  Every failure is printed and the loop continues; a failed query
\* leaves the transaction aborted, so that every later query fails as well.
\* The result is the document and whether the transaction is aborted.
EventsData(db, n, fault) ==
    {e \in EventIdsOf(db, {n}) : ~Hits(fault, "ser_event", e)}

RECURSIVE ActionsData(_, _, _, _)
ActionsData(db, todo, fault, aborted) ==
    IF todo = <<>> THEN [data |-> {}, aborted |-> aborted]
    ELSE LET b == Row(db.bindings, Head(todo))
             loadFails == aborted \/ Hits(fault, "load_action", b.id)
             skipped == loadFails \/ Hits(fault, "ser_binding", b.id)
             rest == ActionsData(db, Tail(todo), fault, loadFails)
             item == [binding_id |-> b.id,
                      action |-> [id |-> b.action,
                                  is_key |-> Row(db.actions, b.action).is_key],
                      tnode |-> b.tnode,
                      tevent |-> b.tevent]
         IN [data |-> IF skipped THEN rest.data ELSE rest.data \cup {item},
             aborted |-> rest.aborted]

RECURSIVE CaptureLoop(_, _, _, _)
CaptureLoop(db, todo, fault, aborted) ==
    IF todo = <<>> THEN [nodes |-> {}, aborted |-> aborted]
    ELSE LET n == Row(db.nodes, Head(todo))
             queryFails == \/ aborted
                           \/ Hits(fault, "query_events", n.id)
                           \/ Hits(fault, "query_bindings", n.id)
             acts == ActionsData(db, SetToSeq({b.id : b \in {x \in db.bindings :
                                                        x.source = n.id}}),
                                 fault, FALSE)
             skipped == queryFails \/ Hits(fault, "ser_node", n.id)
             rest == CaptureLoop(db, Tail(todo), fault,
                                 queryFails \/ acts.aborted)
             item == [id |-> n.id, scene |-> n.scene,
                      events |-> EventsData(db, n.id, fault),
                      actions |-> acts.data]
         IN [nodes |-> IF skipped THEN rest.nodes ELSE rest.nodes \cup {item},
             aborted |-> rest.aborted]

CaptureWithFault(db, p, fault) ==
    LET r == CaptureLoop(db, SetToSeq(CurrentNodes(db, p)), fault, FALSE)
    IN [doc |-> [start |-> db.start[p], nodes |-> r.nodes], aborted |-> r.aborted]

\* The statements of one capture that can fail.
CaptureFaults(db, p) ==
    LET cur == CurrentNodes(db, p)
    IN {[step |-> st, id |-> n] :
           st \in {"query_events", "query_bindings", "ser_node"}, n \in cur}
         \cup {[step |-> "ser_event", id |-> e] : e \in EventIdsOf(db, cur)}
         \cup {[step |-> st, id |-> b.id] :
                 st \in {"load_action", "ser_binding"},
                 b \in {x \in db.bindings : x.source \in cur}}

\* ---- StoryHistoryRepository: the teardown ---------------------------------
\* A collection that reads the bindings only.
CollectBoundActionIds(db, cur) ==
    {b.action : b \in {x \in db.bindings : x.source \in cur /\ x.action # Null}}

\* STEP 1 of _safe_delete_project_data: the action ids of the bindings of the
\* project's nodes and of the actions attached to the events of those nodes.
CollectActionIds(db, cur) ==
    {b.action : b \in {x \in db.bindings : x.source \in cur /\ x.action # Null}}
        \cup {a.id : a \in {x \in db.actions : x.event \in EventIdsOf(db, cur)}}

\* project.start_node_id = None; flush (outside the inner try blocks).
ClearStartNode(tx, p, fault) ==
    IF tx.db.start[p] = Null THEN tx
    ELSE IF Hits(fault, "clear_start", Null)
         THEN [tx EXCEPT !.aborted = TRUE, !.raised = TRUE]
         ELSE [tx EXCEPT !.db.start[p] = Null]

\* "1. Delete action bindings first": one DELETE per node, a failure is
\* printed and the loop goes on.
RECURSIVE DeleteBindingsLoop(_, _, _)
DeleteBindingsLoop(tx, todo, fault) ==
    IF todo = <<>> THEN tx
    ELSE LET n == Head(todo)
             failed == tx.aborted \/ Hits(fault, "del_bindings", n)
             tx2 == IF failed THEN [tx EXCEPT !.aborted = TRUE]
                    ELSE [tx EXCEPT !.db.bindings = {b \in @ : b.source # n}]
         IN DeleteBindingsLoop(tx2, Tail(todo), fault)

\* A deletion of the collected actions that takes the bindings of those
\* actions with it, whichever node they start from.
DeleteCollectedActionsCascading(tx, ids, fault) ==
    IF ids = {} THEN tx
    ELSE LET failed == tx.aborted \/ Hits(fault, "del_actions", Null)
         IN IF failed THEN [tx EXCEPT !.aborted = TRUE]
            ELSE [tx EXCEPT !.db.actions = {a \in @ : a.id \notin ids},
                            !.db.bindings = {b \in @ : b.action \notin ids}]

\* "2. Delete all collected actions in batches" (one batch at these sizes);
\* the DELETE is refused while a binding still references one of them.
DeleteCollectedActions(tx, ids, fault) ==
    IF ids = {} THEN tx
    ELSE LET referenced == \E b \in tx.db.bindings : b.action \in ids
             failed == tx.aborted \/ Hits(fault, "del_actions", Null) \/ referenced
         IN IF failed THEN [tx EXCEPT !.aborted = TRUE]
            ELSE [tx EXCEPT !.db.actions = {a \in @ : a.id \notin ids}]

\* "3. Delete events": one DELETE per node, failures printed.
RECURSIVE DeleteEventsLoop(_, _, _)
DeleteEventsLoop(tx, todo, fault) ==
    IF todo = <<>> THEN tx
    ELSE LET n == Head(todo)
             evs == EventIdsOf(tx.db, {n})
             referenced == \/ \E a \in tx.db.actions : a.event \in evs
                           \/ \E b \in tx.db.bindings : b.tevent \in evs
             failed == tx.aborted \/ Hits(fault, "del_events", n) \/ referenced
             tx2 == IF failed THEN [tx EXCEPT !.aborted = TRUE]
                    ELSE [tx EXCEPT !.db.events = {e \in @ : e.node # n}]
         IN DeleteEventsLoop(tx2, Tail(todo), fault)

\* "4. Now safely delete nodes": one DELETE for the project, a failure is
\* re-raised.
DeleteProjectNodes(tx, p, fault) ==
    LET db2 == [tx.db EXCEPT !.nodes = {n \in @ : n.project # p}]
        failed == tx.aborted \/ Hits(fault, "del_nodes", Null) \/ ~ForeignKeysHold(db2)
    IN IF failed THEN [tx EXCEPT !.aborted = TRUE, !.raised = TRUE]
       ELSE [tx EXCEPT !.db = db2]

\* A teardown that deletes the collected actions before the bindings.
SafeDeleteActionsFirst(tx, p, fault) ==
    LET cur == CurrentNodes(tx.db, p)
        order == SetToSeq(cur)
        t1 == ClearStartNode(tx, p, fault)
        ids == CollectActionIds(t1.db, cur)
        t2 == DeleteCollectedActions(t1, ids, fault)
        t3 == DeleteBindingsLoop(t2, order, fault)
        t4 == DeleteEventsLoop(t3, order, fault)
    IN IF t1.raised THEN t1 ELSE DeleteProjectNodes(t4, p, fault)

\* _safe_delete_project_data: the statements in the order of the code.
SafeDeleteProjectData(tx, p, fault) ==
    LET cur == CurrentNodes(tx.db, p)
        order == SetToSeq(cur)
        t1 == ClearStartNode(tx, p, fault)
        ids == CollectActionIds(t1.db, cur)
        t2 == DeleteBindingsLoop(t1, order, fault)
        t3 == DeleteCollectedActions(t2, ids, fault)
        t4 == DeleteEventsLoop(t3, order, fault)
    IN IF t1.raised THEN t1 ELSE DeleteProjectNodes(t4, p, fault)

\* The transaction of _safe_delete_project_data before its first statement
\* and after each of its five deleting steps (a step that does not run, after
\* an exception, leaves the transaction as it is).
TeardownSteps(tx, p, fault) ==
    LET cur == CurrentNodes(tx.db, p)
        order == SetToSeq(cur)
        t1 == ClearStartNode(tx, p, fault)
        ids == CollectActionIds(t1.db, cur)
        t2 == IF t1.raised THEN t1 ELSE DeleteBindingsLoop(t1, order, fault)
        t3 == IF t1.raised THEN t1 ELSE DeleteCollectedActions(t2, ids, fault)
        t4 == IF t1.raised THEN t1 ELSE DeleteEventsLoop(t3, order, fault)
        t5 == IF t1.raised THEN t1 ELSE DeleteProjectNodes(t4, p, fault)
    IN <<tx, t1, t2, t3, t4, t5>>

\* _safe_create_node_and_events, over all nodes of the document: the rows
\* added to the session.  A failure creating a node is re-raised; a failure
\* creating an event is printed and that event is left out.
NodeRowsOf(doc, p) ==
    {[id |-> nd.id, project |-> p, scene |-> Min(nd.scene, SceneLimit)] : nd \in doc.nodes}

EventRowsOf(doc, fault) ==
    UNION {{[id |-> e, node |-> nd.id] :
              e \in {x \in nd.events : x # Null /\ ~Hits(fault, "create_event", x)}}
           : nd \in doc.nodes}

\* _safe_create_actions_and_bindings, over all nodes of the document.  One
\* Action row is added per binding entry (event_id = None); a failure inside
\* the try block is printed and the rest of that entry is left out.
ActionEntriesOf(doc, fault) ==
    UNION {{[binding_id |-> x.binding_id, source |-> nd.id, action |-> x.action,
             tnode |-> x.tnode, tevent |-> x.tevent] :
              x \in {y \in nd.actions : y.action.id # Null
                                         /\ ~Hits(fault, "create_action", y.binding_id)}}
           : nd \in doc.nodes}

ActionRowsOf(entries) ==
    {[id |-> x.action.id, is_key |-> x.action.is_key, event |-> Null] : x \in entries}

BindingRowsOf(entries, fault) ==
    {[id |-> x.binding_id, action |-> x.action.id, source |-> x.source,
      tnode |-> x.tnode, tevent |-> x.tevent] :
        x \in {y \in entries : y.binding_id # Null
                                /\ ~Hits(fault, "create_binding", y.binding_id)}}

\* The flush of the added rows: refused on a duplicate primary key (two added
\* rows with one id, or an id a surviving row already has) and on a dangling
\* foreign key.
FlushCreated(tx, nodeRows, eventRows, entries, bindingRows, fault) ==
    LET actionRows == ActionRowsOf(entries)
        dupKey == \/ Ids(nodeRows) \cap Ids(tx.db.nodes) # {}
                  \/ Ids(eventRows) \cap Ids(tx.db.events) # {}
                  \/ Ids(actionRows) \cap Ids(tx.db.actions) # {}
                  \/ Ids(bindingRows) \cap Ids(tx.db.bindings) # {}
                  \/ Cardinality({x.action.id : x \in entries}) # Cardinality(entries)
        db2 == [tx.db EXCEPT !.nodes = @ \cup nodeRows,
                             !.events = @ \cup eventRows,
                             !.actions = @ \cup actionRows,
                             !.bindings = @ \cup bindingRows]
        failed == tx.aborted \/ Hits(fault, "flush", Null) \/ dupKey \/ ~ForeignKeysHold(db2)
    IN IF failed THEN [tx EXCEPT !.aborted = TRUE, !.raised = TRUE]
       ELSE [tx EXCEPT !.db = db2]

\* The session.add calls of _safe_recreate_from_snapshot in the order the code
\* makes them.  An add is written [kind, id, source, tnode, tevent]; the nodes
\* of the document, the events of a node and the entries of a node are walked
\* in the order the capture wrote them (ascending ids here).
Add(kind, id, source, tnode, tevent) ==
    [kind |-> kind, id |-> id, source |-> source, tnode |-> tnode, tevent |-> tevent]

RECURSIVE Flatten(_)
Flatten(ss) == IF ss = <<>> THEN <<>> ELSE Head(ss) \o Flatten(Tail(ss))

\* _safe_create_node_and_events for one node: the node, then its events.
NodeAndEventAdds(doc, n, fault) ==
    LET evs == SetToSeq({e \in (CHOOSE nd \in doc.nodes : nd.id = n).events :
                            e # Null /\ ~Hits(fault, "create_event", e)})
    IN <<Add("node", n, Null, Null, Null)>>
          \o [i \in 1..Len(evs) |-> Add("event", evs[i], n, Null, Null)]

\* _safe_create_actions_and_bindings for one node: per entry the action, then
\* its binding.
ActionAndBindingAdds(doc, n, fault) ==
    LET entries == (CHOOSE nd \in doc.nodes : nd.id = n).actions
        bids == SetToSeq({x.binding_id : x \in entries})
        entry(b) == CHOOSE x \in entries : x.binding_id = b
        adds(x) ==
            IF x.action.id = Null \/ Hits(fault, "create_action", x.binding_id) THEN <<>>
            ELSE <<Add("action", x.action.id, Null, Null, Null)>>
                   \o (IF x.binding_id = Null \/ Hits(fault, "create_binding", x.binding_id)
                       THEN <<>>
                       ELSE <<Add("binding", x.binding_id, n, x.tnode, x.tevent)>>)
    IN Flatten([i \in 1..Len(bids) |-> adds(entry(bids[i]))])

\* A reconstruction that creates each node together with its actions and
\* bindings, in one pass over the document.
OnePassAdds(doc, fault) ==
    LET order == SetToSeq({nd.id : nd \in doc.nodes})
    IN Flatten([i \in 1..Len(order) |->
                   NodeAndEventAdds(doc, order[i], fault)
                      \o ActionAndBindingAdds(doc, order[i], fault)])

\* The two loops of _safe_recreate_from_snapshot.
RecreateAdds(doc, fault) ==
    LET order == SetToSeq({nd.id : nd \in doc.nodes})
    IN Flatten([i \in 1..Len(order) |-> NodeAndEventAdds(doc, order[i], fault)])
          \o Flatten([i \in 1..Len(order) |-> ActionAndBindingAdds(doc, order[i], fault)])

\* An update of the project info that writes the document's start node
\* without looking it up.
SafeUpdateProjectInfoUnchecked(tx, p, doc, fault) ==
    IF Hits(fault, "update_info", Null) THEN [tx EXCEPT !.aborted = TRUE]
    ELSE [tx EXCEPT !.db.start[p] = doc.start]

\* _safe_update_project_info: the start node of the document if it is a node
\* of this project now, None otherwise.  A failure of one of its queries is
\* printed, not raised; the transaction is left aborted.
SafeUpdateProjectInfo(tx, p, doc, fault) ==
    IF Hits(fault, "update_info", Null) THEN [tx EXCEPT !.aborted = TRUE]
    ELSE IF doc.start # Null
            /\ \E n \in tx.db.nodes : n.id = doc.start /\ n.project = p
         THEN [tx EXCEPT !.db.start[p] = doc.start]
         ELSE [tx EXCEPT !.db.start[p] = Null]

SafeRecreateFromSnapshot(tx, p, doc, fault) ==
    LET nodeFails == \E nd \in doc.nodes : Hits(fault, "create_node", nd.id)
        entries == ActionEntriesOf(doc, fault)
        t1 == FlushCreated(tx, NodeRowsOf(doc, p), EventRowsOf(doc, fault),
                           entries, BindingRowsOf(entries, fault), fault)
    IN IF nodeFails THEN [tx EXCEPT !.raised = TRUE]
       ELSE IF t1.raised THEN t1
       ELSE SafeUpdateProjectInfo(t1, p, doc, fault)

\* _apply_snapshot_safe
ApplySnapshotSafe(db, p, doc, fault) ==
    LET t1 == SafeDeleteProjectData(Tx(db), p, fault)
    IN IF t1.raised THEN t1 ELSE SafeRecreateFromSnapshot(t1, p, doc, fault)

\* A restore_snapshot that looks the entry up by its id alone.
RestoreSnapshotOfAnyProject(db, h, p, sid, newId, fault) ==
    LET found == \E i \in 1..Len(h) : h[i].id = sid
        snapshot == h[CHOOSE i \in 1..Len(h) : h[i].id = sid]
        current == CreateCurrentSnapshot(db, p)
        t == ApplySnapshotSafe(db, p, snapshot.doc, fault)
        ok == found /\ ~t.raised /\ ~t.aborted /\ ~Hits(fault, "save_point", Null)
    IN [ok |-> ok,
        db |-> IF ok THEN t.db ELSE db,
        history |-> IF ok THEN SaveSnapshot(h, p, newId, current, "rollback_point") ELSE h]

\* restore_snapshot: False when the entry is not this project's; otherwise
\* capture the current state, apply the target inside a savepoint, and only
\* then save the capture as a "rollback_point".  Any exception rolls the whole
\* transaction back and returns False.
RestoreSnapshot(db, h, p, sid, newId, fault) ==
    LET found == \E i \in 1..Len(h) : h[i].id = sid /\ h[i].project = p
        snapshot == h[CHOOSE i \in 1..Len(h) : h[i].id = sid /\ h[i].project = p]
        current == CreateCurrentSnapshot(db, p)
        t == ApplySnapshotSafe(db, p, snapshot.doc, fault)
        ok == found /\ ~t.raised /\ ~t.aborted /\ ~Hits(fault, "save_point", Null)
    IN [ok |-> ok,
        db |-> IF ok THEN t.db ELSE db,
        history |-> IF ok THEN SaveSnapshot(h, p, newId, current, "rollback_point") ELSE h]

\* The steps of one rollback that a fault can hit: those that run.  A target
\* that is not in the project's ledger ends the call before any of them.
HasEntry(h, p, sid) == \E i \in 1..Len(h) : h[i].id = sid /\ h[i].project = p

DocOf(h, p, sid) == h[CHOOSE i \in 1..Len(h) : h[i].id = sid /\ h[i].project = p].doc

\* One point of a restore_snapshot call: the step just made, the tables and
\* the ledger as the session sees them, and the capture held in
\* current_snapshot.
Point(step, db, h, captured) ==
    [step |-> step, db |-> db, history |-> h, captured |-> captured]

\* A restore that saves the capture as the rollback point first, on its own,
\* and then applies the target.
RestoreTraceSavesFirst(db, h, p, sid, newId, fault) ==
    LET current == CreateCurrentSnapshot(db, p)
        h2 == SaveSnapshot(h, p, newId, current, "rollback_point")
        t1 == SafeDeleteProjectData(Tx(db), p, fault)
        t2 == SafeRecreateFromSnapshot(t1, p, DocOf(h, p, sid), fault)
        applied == ~t1.raised /\ ~t2.raised /\ ~t2.aborted
    IN <<Point("capture", db, h, current), Point("save_point", db, h2, current),
         Point("teardown", t1.db, h2, current)>>
         \o (IF t1.raised THEN <<>> ELSE <<Point("recreate", t2.db, h2, current)>>)
         \o (IF applied THEN <<Point("return_true", t2.db, h2, current)>>
             ELSE <<Point("return_false", db, h2, current)>>)

\* restore_snapshot of an entry of the project, step by step: the capture,
\* the teardown and the reconstruction inside the savepoint, the save of the
\* rollback point, and the return -- True after the commit, False after
\* session.rollback() when a step raised.
RestoreTrace(db, h, p, sid, newId, fault) ==
    LET current == CreateCurrentSnapshot(db, p)
        t1 == SafeDeleteProjectData(Tx(db), p, fault)
        t2 == SafeRecreateFromSnapshot(t1, p, DocOf(h, p, sid), fault)
        applied == ~t1.raised /\ ~t2.raised /\ ~t2.aborted
        saved == applied /\ ~Hits(fault, "save_point", Null)
        h2 == SaveSnapshot(h, p, newId, current, "rollback_point")
    IN <<Point("capture", db, h, current), Point("teardown", t1.db, h, current)>>
         \o (IF t1.raised THEN <<>> ELSE <<Point("recreate", t2.db, h, current)>>)
         \o (IF saved THEN <<Point("save_point", t2.db, h2, current),
                             Point("return_true", t2.db, h2, current)>>
             ELSE <<Point("return_false", db, h, current)>>)

StepsOf(db, p, doc) ==
    {[step |-> st, id |-> Null] :
        st \in {"del_nodes", "flush", "update_info", "save_point"}}
      \cup (IF db.start[p] # Null THEN {[step |-> "clear_start", id |-> Null]} ELSE {})
      \cup (IF CollectActionIds(db, CurrentNodes(db, p)) # {}
            THEN {[step |-> "del_actions", id |-> Null]} ELSE {})
      \cup {[step |-> st, id |-> n] :
              st \in {"del_bindings", "del_events"}, n \in CurrentNodes(db, p)}
      \cup {[step |-> "create_node", id |-> nd.id] : nd \in doc.nodes}
      \cup UNION {{[step |-> "create_event", id |-> e] : e \in nd.events} : nd \in doc.nodes}
      \cup UNION {{[step |-> st, id |-> x.binding_id] :
                     st \in {"create_action", "create_binding"}, x \in nd.actions}
                  : nd \in doc.nodes}

FaultsOf(db, h, p, sid) ==
    {NoFault} \cup (IF HasEntry(h, p, sid) THEN StepsOf(db, p, DocOf(h, p, sid)) ELSE {})

\* What the caller of a failed rollback can tell from the log: the phase of
\* _apply_snapshot_safe in which the injected fault struck.
PhaseOf(fault) ==
    IF fault.step \in {"clear_start", "del_bindings", "del_actions", "del_events", "del_nodes"}
    THEN [step |-> "teardown", id |-> Null]
    ELSE IF fault.step \in {"create_node", "create_event", "create_action",
                            "create_binding", "flush", "update_info"}
    THEN [step |-> "recreate", id |-> Null]
    ELSE [step |-> fault.step, id |-> Null]

\* How many successful calls of `op` (on the same target, for a rollback) ended
\* with the most recent call: the calls "in a row" so far.
Run(op, sid) ==
    IF last.op = op /\ last.ok /\ (sid # Null => last.args[2] = sid) THEN last.args[1] ELSE 0

\* POST /projects/{id}/history/snapshot
CreateSnapshot(p) ==
    /\ nextId.snap <= cap.snap
    /\ history' = SaveSnapshot(history, p, nextId.snap, CreateCurrentSnapshot(Db, p), "manual")
    /\ nextId' = [nextId EXCEPT !.snap = @ + 1]
    /\ last' = Call("create_snapshot", TRUE, <<Run("create_snapshot", Null) + 1>>, NoFault)
    /\ UNCHANGED <<calls, cap, graph, projStart, nodes, events, actions, bindings>>

\* POST /projects/{id}/history/rollback -> restore_snapshot
Rollback(p, sid, fault) ==
    /\ \E r \in {RestoreSnapshot(Db, history, p, sid, nextId.snap, fault)} :
          /\ r.ok => nextId.snap <= cap.snap
          /\ projStart' = r.db.start
          /\ nodes' = r.db.nodes
          /\ events' = r.db.events
          /\ actions' = r.db.actions
          /\ bindings' = r.db.bindings
          /\ history' = r.history
          /\ nextId' = IF r.ok THEN [nextId EXCEPT !.snap = @ + 1] ELSE nextId
          /\ last' = Call("rollback", r.ok,
                          <<IF r.ok THEN Run("rollback", sid) + 1 ELSE 0, sid, p>>,
                          IF r.ok THEN fault ELSE PhaseOf(fault))
    /\ UNCHANGED <<calls, cap, graph>>

\* DELETE /projects/{id}/history/{snapshot_id}
DeleteSnapshot(p, sid) ==
    /\ \E i \in 1..Len(history) : history[i].id = sid /\ history[i].project = p
    /\ history' = SelectSeq(history, LAMBDA e : ~(e.id = sid /\ e.project = p))
    /\ last' = Call("delete_snapshot", TRUE, <<sid>>, NoFault)
    /\ UNCHANGED <<calls, cap, graph, projStart, nodes, events, actions, bindings, nextId>>

\* get_latest_snapshot: the first entry of the same ordering, None when the
\* project has no entry.
GetLatestSnapshot(h, p) ==
    LET newestFirst == Reverse(EntriesOf(h, p))
    IN IF newestFirst = <<>> THEN Null ELSE newestFirst[1].id

\* GET /projects/{id}/history: the ids of the entries, in the order returned.
GetHistory(p) ==
    /\ LET got == GetProjectHistory(history, p)
       IN last' = Call("get_history", TRUE, <<[i \in 1..Len(got) |-> got[i].id]>>, NoFault)
    /\ UNCHANGED <<calls, cap, graph, projStart, nodes, events, actions, bindings, history, nextId>>

GetLatest(p) ==
    /\ last' = Call("get_latest", TRUE, <<GetLatestSnapshot(history, p)>>, NoFault)
    /\ UNCHANGED <<calls, cap, graph, projStart, nodes, events, actions, bindings, history, nextId>>

\* Building a project, capturing it and rolling back.
NextBuild ==
    \/ \E p \in Projects : \E sc \in SceneLens : CreateNode(p, sc)
    \/ \E p \in Projects : \E n \in 1..cap.node : SetStartNode(p, n)
    \/ \E n \in 1..cap.node : CreateEvent(n)
    \/ \E k \in BOOLEAN : \E e \in EventRefs : CreateAction(k, e)
    \/ \E a \in 1..cap.action : \E src \in 1..cap.node :
          \E tn \in NodeRefs : \E te \in EventRefs : CreateActionBinding(a, src, tn, te)

NextRollback ==
    \/ \E p \in Projects : CreateSnapshot(p)
    \/ \E p \in Projects : \E sid \in 1..cap.snap :
          \E f \in FaultsOf(Db, history, p, sid) : Rollback(p, sid, f)

Next == NextBuild \/ NextRollback

Spec == Init /\ [][Next]_vars

SpecEntity == InitEntity /\ [][NextEntity]_vars

\* The ledger over a project whose nodes come and go.
NextHist ==
    \/ \E p \in Projects : \E sc \in SceneLens : CreateNode(p, sc)
    \/ \E p \in Projects : CreateSnapshot(p)
    \/ \E p \in Projects : \E sid \in 1..cap.snap :
          \E f \in {NoFault, [step |-> "flush", id |-> Null]} : Rollback(p, sid, f)
    \/ \E p \in Projects : \E sid \in 1..cap.snap : DeleteSnapshot(p, sid)

SpecHist == InitHist /\ [][NextHist]_vars

\* Two projects and one ledger table: each project has its own nodes and its
\* own entries, and a rollback can be asked for any snapshot id.
NextShared ==
    \/ \E p \in AllProjects : CreateNode(p, 1)
    \/ \E p \in AllProjects : CreateSnapshot(p)
    \/ \E p \in AllProjects : \E sid \in 1..cap.snap : Rollback(p, sid, NoFault)
    \/ \E p \in AllProjects : \E sid \in 1..cap.snap : DeleteSnapshot(p, sid)

SpecShared == InitShared /\ [][NextShared]_vars

\* The ledger with its queries, over a project that is empty or has one node.
NextLedger ==
    \/ \E p \in Projects : CreateNode(p, 1)
    \/ \E p \in Projects : CreateSnapshot(p)
    \/ \E p \in Projects : \E sid \in 1..cap.snap : Rollback(p, sid, NoFault)
    \/ \E p \in Projects : \E sid \in 1..cap.snap : DeleteSnapshot(p, sid)
    \/ \E p \in Projects : GetHistory(p)
    \/ \E p \in Projects : GetLatest(p)

SpecLedger == InitHist /\ [][NextLedger]_vars

\* POST /projects/{id}/history/snapshot while one statement of the capture
\* fails: save_snapshot starts with a query, which raises when the
\* transaction is aborted; the endpoint then answers 500 and the session is
\* closed without a commit.
CreateSnapshotWithFault(p, fault) ==
    /\ nextId.snap <= cap.snap
    /\ \E r \in {CaptureWithFault(Db, p, fault)} :
          /\ history' = IF r.aborted THEN history
                        ELSE SaveSnapshot(history, p, nextId.snap, r.doc, "manual")
          /\ nextId' = IF r.aborted THEN nextId ELSE [nextId EXCEPT !.snap = @ + 1]
          /\ last' = Call("create_snapshot", ~r.aborted, <<0>>, fault)
    /\ UNCHANGED <<calls, cap, graph, projStart, nodes, events, actions, bindings>>

\* A project of two nodes, captured while a statement of the capture fails.
NextCapture ==
    \/ \E p \in Projects : CreateNode(p, 1)
    \/ \E n \in 1..cap.node : CreateEvent(n)
    \/ \E k \in BOOLEAN : CreateAction(k, Null)
    \/ \E a \in 1..cap.action : \E src \in 1..cap.node :
          \E tn \in NodeRefs : \E te \in EventRefs : CreateActionBinding(a, src, tn, te)
    \/ \E p \in Projects : CreateSnapshot(p)
    \/ \E p \in Projects : \E f \in CaptureFaults(Db, p) : CreateSnapshotWithFault(p, f)

SpecCapture == InitTwoPass /\ [][NextCapture]_vars

\* The faults that can strike the reconstruction of a rollback to `doc`.
RecreateFaults(db, p, doc) ==
    {NoFault} \cup {f \in StepsOf(db, p, doc) : PhaseOf(f).step = "recreate"}

\* A project of two nodes with an event, an action and a binding between the
\* nodes, captured and rolled back, any step of the reconstruction failing.
NextTwoPass ==
    \/ \E p \in Projects : CreateNode(p, 1)
    \/ \E n \in 1..cap.node : CreateEvent(n)
    \/ \E k \in BOOLEAN : CreateAction(k, Null)
    \/ \E a \in 1..cap.action : \E src \in 1..cap.node :
          \E tn \in NodeRefs : \E te \in EventRefs : CreateActionBinding(a, src, tn, te)
    \/ \E p \in Projects : CreateSnapshot(p)
    \/ \E p \in Projects : \E sid \in 1..cap.snap :
          \E f \in (IF HasEntry(history, p, sid)
                    THEN RecreateFaults(Db, p, DocOf(history, p, sid)) ELSE {NoFault}) :
             Rollback(p, sid, f)

SpecTwoPass == InitTwoPass /\ [][NextTwoPass]_vars

\* Two projects; update_project takes any node id as the start node, so a
\* project's start node can be a node of the other project.
NextStart ==
    \/ \E p \in AllProjects : CreateNode(p, 1)
    \/ \E p \in AllProjects : \E n \in 1..cap.node : SetStartNode(p, n)
    \/ \E p \in AllProjects : CreateSnapshot(p)
    \/ \E p \in AllProjects : \E sid \in 1..cap.snap :
          \E f \in {NoFault, [step |-> "update_info", id |-> Null]} : Rollback(p, sid, f)

SpecStart == InitStart /\ [][NextStart]_vars
\* Two projects: the binding endpoint takes any action, any source node and
\* any target, so an action can be bound from nodes of both projects and a
\* binding can lead into the other project.  One of the projects is captured
\* and rolled back.
NextFrame ==
    \/ \E p \in AllProjects : CreateNode(p, 1)
    \/ \E n \in 1..cap.node : CreateEvent(n)
    \/ \E k \in BOOLEAN : CreateAction(k, Null)
    \/ \E a \in 1..cap.action : \E src \in 1..cap.node :
          \E tn \in NodeRefs : \E te \in EventRefs : CreateActionBinding(a, src, tn, te)
    \/ \E p \in Projects : CreateSnapshot(p)
    \/ \E p \in Projects : \E sid \in 1..cap.snap : Rollback(p, sid, NoFault)

SpecFrame == InitFrame /\ [][NextFrame]_vars

\* One project in which an action can be bound twice, from one node or from
\* two, captured and rolled back.
NextShare ==
    \/ \E p \in Projects : CreateNode(p, 1)
    \/ \E n \in 1..cap.node : CreateEvent(n)
    \/ \E k \in BOOLEAN : CreateAction(k, Null)
    \/ \E a \in 1..cap.action : \E src \in 1..cap.node :
          \E tn \in NodeRefs : \E te \in EventRefs : CreateActionBinding(a, src, tn, te)
    \/ \E p \in Projects : CreateSnapshot(p)
    \/ \E p \in Projects : \E sid \in 1..cap.snap : Rollback(p, sid, NoFault)

SpecShare == InitShare /\ [][NextShare]_vars

\* ---- two sessions on one project -----------------------------------------
\* Each request has its own session (get_db) and transaction; under READ
\* COMMITTED a query sees what has been committed when it runs, and with
\* autoflush off the session's deletes and inserts reach the tables at its
\* commit.
InFlight == {c \in Callers : calls[c].pc # "idle"}

\* POST /projects/{id}/history/snapshot, step 1: the capture, and the query
\* of _cleanup_old_history for the entries beyond the KeepRecent newest.
SnapshotRead(c, p) ==
    /\ calls[c].pc = "idle"
    /\ nextId.snap + Cardinality(InFlight) <= cap.snap
    /\ calls' = [calls EXCEPT ![c] = [pc |-> "read", project |-> p, sid |-> Null,
                                      old |-> OldEntryIds(history, p),
                                      doc |-> CreateCurrentSnapshot(Db, p),
                                      target |-> [start |-> Null, nodes |-> {}]]]
    /\ UNCHANGED <<cap, graph, projStart, nodes, events, actions, bindings, history, nextId,
                   last>>

\* step 2: session.delete of each entry read.
SnapshotDelete(c) ==
    /\ calls[c].pc = "read"
    /\ calls' = [calls EXCEPT ![c].pc = "deleted"]
    /\ UNCHANGED <<cap, graph, projStart, nodes, events, actions, bindings, history, nextId,
                   last>>

\* step 3: session.add of the new entry.
SnapshotInsert(c) ==
    /\ calls[c].pc = "deleted"
    /\ calls' = [calls EXCEPT ![c].pc = "inserted"]
    /\ UNCHANGED <<cap, graph, projStart, nodes, events, actions, bindings, history, nextId,
                   last>>

\* step 4: commit -- the DELETEs of the entries read (a row another session
\* has deleted meanwhile matches nothing) and the INSERT of the new entry.
SnapshotCommit(c) ==
    /\ calls[c].pc = "inserted"
    /\ history' = Append(SelectSeq(history, LAMBDA e : e.id \notin calls[c].old),
                         [id |-> nextId.snap, project |-> calls[c].project,
                          op |-> "manual", doc |-> calls[c].doc])
    /\ nextId' = [nextId EXCEPT !.snap = @ + 1]
    /\ calls' = [calls EXCEPT ![c] = Idle]
    /\ last' = Call("save_snapshot", TRUE, <<c, nextId.snap>>, NoFault)
    /\ UNCHANGED <<cap, graph, projStart, nodes, events, actions, bindings>>

NextInterleave ==
    \/ \E p \in Projects : CreateNode(p, 1)
    \/ \E c \in Callers : \E p \in Projects : SnapshotRead(c, p)
    \/ \E c \in Callers : SnapshotDelete(c)
    \/ \E c \in Callers : SnapshotInsert(c)
    \/ \E c \in Callers : SnapshotCommit(c)

SpecInterleave == InitHist /\ [][NextInterleave]_vars

\* POST /projects/{id}/history/rollback, first part: restore_snapshot loads
\* the entry and captures the current state into current_snapshot.
RollbackCapture(c, p, sid) ==
    /\ calls[c].pc = "idle"
    /\ HasEntry(history, p, sid)
    /\ nextId.snap + Cardinality(InFlight) <= cap.snap
    /\ calls' = [calls EXCEPT ![c] = [pc |-> "captured", project |-> p, sid |-> sid,
                                      old |-> {},
                                      doc |-> CreateCurrentSnapshot(Db, p),
                                      target |-> DocOf(history, p, sid)]]
    /\ UNCHANGED <<cap, graph, projStart, nodes, events, actions, bindings, history, nextId,
                   last>>

\* second part: _apply_snapshot_safe on the rows as they are now, then the
\* save of the capture as the rollback point, then the commit.
RollbackApply(c) ==
    /\ calls[c].pc = "captured"
    /\ \E t \in {ApplySnapshotSafe(Db, calls[c].project, calls[c].target, NoFault)} :
          LET ok == ~t.raised /\ ~t.aborted
          IN /\ projStart' = IF ok THEN t.db.start ELSE projStart
             /\ nodes' = IF ok THEN t.db.nodes ELSE nodes
             /\ events' = IF ok THEN t.db.events ELSE events
             /\ actions' = IF ok THEN t.db.actions ELSE actions
             /\ bindings' = IF ok THEN t.db.bindings ELSE bindings
             /\ history' = IF ok THEN SaveSnapshot(history, calls[c].project, nextId.snap,
                                                   calls[c].doc, "rollback_point")
                           ELSE history
             /\ nextId' = IF ok THEN [nextId EXCEPT !.snap = @ + 1] ELSE nextId
             /\ last' = Call("rollback", ok,
                             <<IF ok THEN 1 ELSE 0, calls[c].sid, calls[c].project>>, NoFault)
    /\ calls' = [calls EXCEPT ![c] = Idle]
    /\ UNCHANGED <<cap, graph>>

\* An editor and a rollback on one project of two nodes.
NextRace ==
    \/ \E p \in Projects : CreateNode(p, 1)
    \/ \E n \in 1..cap.node : UpdateNode(n, 2)
    \/ \E n \in 1..cap.node : CreateEvent(n)
    \/ \E k \in BOOLEAN : CreateAction(k, Null)
    \/ \E a \in 1..cap.action : \E src \in 1..cap.node :
          \E tn \in NodeRefs : \E te \in EventRefs : CreateActionBinding(a, src, tn, te)
    \/ \E p \in Projects : CreateSnapshot(p)
    \/ \E c \in Callers : \E p \in Projects : \E sid \in 1..cap.snap : RollbackCapture(c, p, sid)
    \/ \E c \in Callers : RollbackApply(c)

SpecRace == InitTwoPass /\ [][NextRace]_vars

\* ---- NarrativeGraph (client/utils/narrative_graph.py) ---------------------
\* graph.nodes is the dict of the class in insertion order; a node carries its
\* events and its outgoing_actions, a binding the bound Action and the ids of
\* the Node / Event objects it points at.
storeVars == <<projStart, nodes, events, actions, bindings, history, nextId, cap, calls>>

NodeIdsOf(g) == {g.nodes[i].id : i \in 1..Len(g.nodes)}

EventIdsIn(g) ==
    UNION {{g.nodes[i].events[j] : j \in 1..Len(g.nodes[i].events)} : i \in 1..Len(g.nodes)}

\* create_node: the new node becomes the start node if there is none.
GraphCreateNode ==
    /\ graph.next.node <= GraphNodes
    /\ graph' = [graph EXCEPT
                   !.nodes = Append(@, [id |-> graph.next.node, scene |-> 1,
                                        events |-> <<>>, out |-> <<>>, metadata |-> {}]),
                   !.start = IF @ = Null THEN graph.next.node ELSE @,
                   !.next.node = @ + 1]
    /\ last' = Call("graph_create_node", TRUE, <<>>, NoFault)
    /\ UNCHANGED storeVars

\* A remove_node that clears the start node instead of moving it on.
RemoveNodeClearsStart(g, n) ==
    LET remaining == SelectSeq(g.nodes, LAMBDA nd : nd.id # n)
        cleaned == [i \in 1..Len(remaining) |->
                      [remaining[i] EXCEPT
                         !.out = SelectSeq(@, LAMBDA b : b.tnode = Null \/ b.tnode # n)]]
    IN [g EXCEPT !.nodes = cleaned, !.start = IF @ = n THEN Null ELSE @]

\* A remove_node that leaves the bindings of the other nodes as they are.
RemoveNodeKeepsIncoming(g, n) ==
    LET remaining == SelectSeq(g.nodes, LAMBDA nd : nd.id # n)
    IN [g EXCEPT !.nodes = remaining,
                 !.start = IF @ = n
                           THEN (IF remaining # <<>> THEN remaining[1].id ELSE Null)
                           ELSE @]

\* remove_node: False for an unknown id; otherwise drop every binding that
\* targets the node, move the start node to the first remaining node (None
\* when there is none) if it was this node, and delete the node.
RemoveNode(g, n) ==
    LET remaining == SelectSeq(g.nodes, LAMBDA nd : nd.id # n)
        cleaned == [i \in 1..Len(remaining) |->
                      [remaining[i] EXCEPT
                         !.out = SelectSeq(@, LAMBDA b : b.tnode = Null \/ b.tnode # n)]]
    IN [g EXCEPT !.nodes = cleaned,
                 !.start = IF @ = n
                           THEN (IF remaining # <<>> THEN remaining[1].id ELSE Null)
                           ELSE @]

\* The bindings of the graph, as <<index of the source node, index in its
\* outgoing_actions>>, that point at node n.
BindingsTo(g, n) ==
    {ij \in UNION {{<<i, j>> : j \in 1..Len(g.nodes[i].out)} : i \in 1..Len(g.nodes)} :
        g.nodes[ij[1]].out[ij[2]].tnode = n}

GraphRemoveNode(n) ==
    /\ n \in 1..GraphNodes
    /\ graph' = IF n \in NodeIdsOf(graph) THEN RemoveNode(graph, n) ELSE graph
    /\ last' = Call("graph_remove_node", n \in NodeIdsOf(graph),
                    <<n, graph.start, Cardinality(BindingsTo(graph, n))>>, NoFault)
    /\ UNCHANGED storeVars

\* attach_event: a new Event appended to the node's events.
AttachEvent(n) ==
    /\ graph.next.event <= GraphEvents
    /\ \E i \in 1..Len(graph.nodes) :
          /\ graph.nodes[i].id = n
          /\ graph' = [graph EXCEPT !.nodes[i].events = Append(@, graph.next.event),
                                    !.next.event = @ + 1]
    /\ last' = Call("attach_event", TRUE, <<>>, NoFault)
    /\ UNCHANGED storeVars

\* The four checks of bind_action that raise ValueError.
BindRaises(isKey, tn, te) ==
    \/ isKey /\ tn = Null
    \/ ~isKey /\ te = Null
    \/ isKey /\ te # Null
    \/ ~isKey /\ tn # Null

\* bind_action(node_from, Action(is_key_action), node_to, event): ValueError
\* on an illegal shape, otherwise Node.add_action_binding appends the binding
\* if it validates.  node_to is a Node object of the caller: a node that was
\* created by this graph, whether or not it is still one of its nodes.
BindAction(src, isKey, tn, te) ==
    /\ graph.next.action <= GraphBindings
    /\ tn \in {Null} \cup (1..(graph.next.node - 1))
    /\ te \in {Null} \cup EventIdsIn(graph)
    /\ \E i \in 1..Len(graph.nodes) :
          /\ graph.nodes[i].id = src
          /\ LET binding == [action |-> [id |-> graph.next.action, is_key |-> isKey],
                             tnode |-> tn, tevent |-> te]
                 added == ~BindRaises(isKey, tn, te) /\ ValidShape(isKey, tn, te)
             IN /\ graph' = IF added
                            THEN [graph EXCEPT !.nodes[i].out = Append(@, binding),
                                               !.next.action = @ + 1]
                            ELSE graph
                /\ last' = Call("bind_action", added, <<isKey, tn, te>>,
                                IF BindRaises(isKey, tn, te)
                                THEN [step |-> "ValueError", id |-> Null] ELSE NoFault)
    /\ UNCHANGED storeVars

\* set_start_node: only a node of the graph can become the start node.
GraphSetStartNode(n) ==
    /\ n \in 1..GraphNodes
    /\ graph' = IF n \in NodeIdsOf(graph) THEN [graph EXCEPT !.start = n] ELSE graph
    /\ last' = Call("graph_set_start_node", n \in NodeIdsOf(graph), <<n>>, NoFault)
    /\ UNCHANGED storeVars

\* validate_graph, 'missing_targets': the bindings whose target node is not a
\* node of the graph, as <<source node id, target node id>>.
MissingTargets(g) ==
    UNION {{<<g.nodes[i].id, g.nodes[i].out[j].tnode>> :
              j \in {k \in 1..Len(g.nodes[i].out) :
                       /\ g.nodes[i].out[k].tnode # Null
                       /\ g.nodes[i].out[k].tnode \notin NodeIdsOf(g)}}
           : i \in 1..Len(g.nodes)}

\* Node.get_key_actions: the bindings of key actions, in list order.
GetKeyActions(nd) == SelectSeq(nd.out, LAMBDA b : b.action.is_key)

NodeOf(g, n) == g.nodes[CHOOSE i \in 1..Len(g.nodes) : g.nodes[i].id = n]

\* The while loop of get_reachable_nodes: pop the last id of the stack, skip
\* it if visited, otherwise add it to visited (order records the sequence of
\* these expansions), read self.nodes[current_id] -- a KeyError if the id is
\* not a node of the graph -- and push the target of every key binding that
\* has a target which is not visited yet.
RECURSIVE ReachLoop(_, _, _, _)
ReachLoop(g, visited, order, stack) ==
    IF stack = <<>> THEN [raised |-> FALSE, visited |-> visited, order |-> order]
    ELSE LET current_id == stack[Len(stack)]
             rest == SubSeq(stack, 1, Len(stack) - 1)
             visited2 == visited \cup {current_id}
             order2 == Append(order, current_id)
         IN IF current_id \in visited THEN ReachLoop(g, visited, order, rest)
            ELSE IF current_id \notin NodeIdsOf(g)
            THEN [raised |-> TRUE, visited |-> visited2, order |-> order2]
            ELSE LET keys == GetKeyActions(NodeOf(g, current_id))
                     push == SelectSeq(keys, LAMBDA b : b.tnode # Null /\ b.tnode \notin visited2)
                 IN ReachLoop(g, visited2, order2,
                              rest \o [j \in 1..Len(push) |-> push[j].tnode])

\* get_reachable_nodes(): the empty set when there is no start node or it is
\* not a node of the graph, otherwise the loop from the start node.
GetReachableNodes(g) ==
    IF g.start = Null \/ g.start \notin NodeIdsOf(g)
    THEN [raised |-> FALSE, visited |-> {}, order |-> <<>>]
    ELSE ReachLoop(g, {}, <<>>, <<g.start>>)

\* get_unreachable_nodes(): the nodes, in dict order, whose id is not in the
\* reachable set; the exception of get_reachable_nodes passes through.
GetUnreachableNodes(g) ==
    LET r == GetReachableNodes(g)
        rest == SelectSeq(g.nodes, LAMBDA nd : nd.id \notin r.visited)
    IN [raised |-> r.raised,
        nodes |-> IF r.raised THEN <<>> ELSE [i \in 1..Len(rest) |-> rest[i].id]]

\* validate_graph(): get_unreachable_nodes first, then one pass over the
\* bindings for 'invalid_bindings' and 'missing_targets'.
ValidateGraph(g) ==
    LET u == GetUnreachableNodes(g)
        invalid == UNION {{<<g.nodes[i].id, g.nodes[i].out[j].action.id>> :
                             j \in {k \in 1..Len(g.nodes[i].out) :
                                      ~ValidShape(g.nodes[i].out[k].action.is_key,
                                                  g.nodes[i].out[k].tnode,
                                                  g.nodes[i].out[k].tevent)}}
                          : i \in 1..Len(g.nodes)}
    IN [raised |-> u.raised,
        unreachable_nodes |-> u.nodes,
        invalid_bindings |-> IF u.raised THEN {} ELSE invalid,
        missing_targets |-> IF u.raised THEN {} ELSE MissingTargets(g)]

KeyError == [step |-> "KeyError", id |-> Null]

GraphGetReachableNodes ==
    /\ \E r \in {GetReachableNodes(graph)} :
          last' = Call("get_reachable_nodes", ~r.raised,
                       <<IF r.raised THEN {} ELSE r.visited>>,
                       IF r.raised THEN KeyError ELSE NoFault)
    /\ UNCHANGED <<graph, storeVars>>

GraphGetUnreachableNodes ==
    /\ \E u \in {GetUnreachableNodes(graph)} :
          last' = Call("get_unreachable_nodes", ~u.raised, <<u.nodes>>,
                       IF u.raised THEN KeyError ELSE NoFault)
    /\ UNCHANGED <<graph, storeVars>>

GraphValidateGraph ==
    /\ \E v \in {ValidateGraph(graph)} :
          last' = Call("validate_graph", ~v.raised,
                       <<v.unreachable_nodes, v.invalid_bindings, v.missing_targets>>,
                       IF v.raised THEN KeyError ELSE NoFault)
    /\ UNCHANGED <<graph, storeVars>>

\* to_dict: title, start_node_id, metadata and, per node, its id, scene,
\* events, metadata and its bindings with the action's dict, the target
\* node's id and the target event's dict.
ToDict(g) ==
    [title |-> g.title,
     start_node_id |-> g.start,
     metadata |-> g.metadata,
     nodes |-> [i \in 1..Len(g.nodes) |->
                  [id |-> g.nodes[i].id,
                   scene |-> g.nodes[i].scene,
                   events |-> g.nodes[i].events,
                   metadata |-> g.nodes[i].metadata,
                   outgoing_actions |->
                     [j \in 1..Len(g.nodes[i].out) |->
                        [action |-> g.nodes[i].out[j].action,
                         target_node_id |-> g.nodes[i].out[j].tnode,
                         target_event |-> g.nodes[i].out[j].tevent]]]]]

\* A from_dict that resolves the bindings of a node while it loads it: a
\* target that comes later in the document is not there yet.
FromDictInOnePass(data, next) ==
    [title |-> data.title,
     start |-> data.start_node_id,
     nodes |-> [i \in 1..Len(data.nodes) |->
                  [id |-> data.nodes[i].id,
                   scene |-> data.nodes[i].scene,
                   events |-> data.nodes[i].events,
                   out |-> [j \in 1..Len(data.nodes[i].outgoing_actions) |->
                              LET x == data.nodes[i].outgoing_actions[j]
                              IN [action |-> x.action,
                                  tnode |-> IF x.target_node_id
                                                 \in {data.nodes[k].id : k \in 1..i}
                                            THEN x.target_node_id ELSE Null,
                                  tevent |-> x.target_event]],
                   metadata |-> data.nodes[i].metadata]],
     metadata |-> data.metadata,
     next |-> next]

\* from_dict: start_node_id is taken as it is; first pass creates the nodes
\* with their events, second pass appends one ActionBinding per entry, its
\* target node looked up among the nodes just created (None if it is not
\* there), without validating the binding.
FromDict(data, next) ==
    LET ids == {data.nodes[i].id : i \in 1..Len(data.nodes)}
    IN [title |-> data.title,
        start |-> data.start_node_id,
        nodes |-> [i \in 1..Len(data.nodes) |->
                     [id |-> data.nodes[i].id,
                      scene |-> data.nodes[i].scene,
                      events |-> data.nodes[i].events,
                      out |-> [j \in 1..Len(data.nodes[i].outgoing_actions) |->
                                 LET x == data.nodes[i].outgoing_actions[j]
                                 IN [action |-> x.action,
                                     tnode |-> IF x.target_node_id \in ids
                                               THEN x.target_node_id ELSE Null,
                                     tevent |-> x.target_event]],
                      metadata |-> data.nodes[i].metadata]],
        metadata |-> data.metadata,
        next |-> next]

\* The documents handed to from_dict: what to_dict wrote, possibly edited by
\* hand (another start_node_id, one node entry taken out).
Documents(g) ==
    {[ToDict(g) EXCEPT !.start_node_id = s,
                       !.nodes = SelectSeq(@, LAMBDA nd : nd.id # skip)] :
        s \in {Null} \cup (1..GraphNodes), skip \in {Null} \cup (1..GraphNodes)}

GraphFromDict(data) ==
    /\ graph' = FromDict(data, graph.next)
    /\ last' = Call("from_dict", TRUE, <<data.start_node_id>>, NoFault)
    /\ UNCHANGED storeVars

NextGraph ==
    \/ GraphCreateNode
    \/ \E n \in 1..GraphNodes : GraphRemoveNode(n)
    \/ \E n \in 1..GraphNodes : AttachEvent(n)
    \/ \E src \in 1..GraphNodes : \E k \in BOOLEAN :
          \E tn \in {Null} \cup (1..GraphNodes) : \E te \in {Null} \cup (1..GraphEvents) :
             BindAction(src, k, tn, te)
    \/ \E n \in 1..GraphNodes : GraphSetStartNode(n)
    \/ \E data \in Documents(graph) : GraphFromDict(data)

SpecGraph == InitGraph /\ [][NextGraph]_vars

\* A graph built by create_node, attach_event and bind_action, saved and
\* loaded again: from_dict(g.to_dict()).
NextRoundTrip ==
    \/ GraphCreateNode
    \/ \E n \in 1..GraphNodes : AttachEvent(n)
    \/ \E src \in 1..GraphNodes : \E k \in BOOLEAN :
          \E tn \in {Null} \cup (1..GraphNodes) : \E te \in {Null} \cup (1..GraphEvents) :
             BindAction(src, k, tn, te)
    \/ GraphFromDict(ToDict(graph))

SpecRoundTrip == InitGraph /\ [][NextRoundTrip]_vars

\* The graph with its analysis queries.
NextQuery ==
    \/ GraphGetReachableNodes
    \/ GraphGetUnreachableNodes
    \/ GraphValidateGraph

SpecQuery == InitGraph /\ [][NextGraph \/ NextQuery]_vars

\* The two editors side by side: a run is either a run of the entity store or
\* a run of the in-memory graph.
NextEditors ==
    \/ cap = EntityCap /\ NextEntity
    \/ cap = NoCap /\ NextGraph

SpecEditors == (InitEntity \/ InitGraph) /\ [][NextEditors]_vars
\* ===========================================================================
\* Properties
\* ===========================================================================

\* C1: creating an action binding of an illegal shape (a key action without a
\* target node or with a target event, a regular action without a target
\* event or with a target node) is rejected and adds no binding -- here for
\* POST /action-bindings, ActionRepository.create_action_binding.
C1_IllegalShapeRejected ==
    (/\ last.op = "create_action_binding"
     /\ ~ValidShape(Row(actions, last.args[1]).is_key, last.args[2], last.args[3]))
        => ~last.ok

AllBindingsValid ==
    \A b \in bindings : ValidShape(Row(actions, b.action).is_key, b.tnode, b.tevent)

\* C2: every stored binding has the shape its action's kind demands -- here
\* the part of it about update_action: changing is_key_action of an action
\* never turns a store whose bindings are all valid into one with an invalid
\* binding.
C2_UpdateActionKeepsBindingsValid ==
    [][(AllBindingsValid /\ \E a \in 1..cap.action : \E k \in BOOLEAN : UpdateAction(a, k))
          => AllBindingsValid']_vars
\* No scene is longer than what the restore keeps of it.
ScenesFit == \A n \in nodes : n.scene <= SceneLimit

\* C3: capturing a snapshot of the project and immediately rolling back to it
\* succeeds and leaves the project equal to what it was: the same nodes,
\* events, actions and bindings with the same fields, the same start node --
\* here for the projects whose scenes the restore does not shorten.
C3_RoundTrip ==
    [][\A p \in Projects :
          (ScenesFit /\ last.op = "create_snapshot" /\ Rollback(p, nextId.snap - 1, NoFault))
             => (last'.ok /\ Db' = Db)]_vars

\* C4: if a step of a rollback's teardown or reconstruction fails, the call
\* returns false and the project's rows, its start node and the ledger are
\* what they were before the call.
C4_FailedStepRevertsAll ==
    [][\A p \in Projects : \A sid \in 1..cap.snap :
          \A f \in FaultsOf(Db, history, p, sid) \ {NoFault} :
             Rollback(p, sid, f) => (~last'.ok /\ Db' = Db /\ history' = history)]_vars

DocNodeIds(doc) == {nd.id : nd \in doc.nodes}

DocEventIds(doc) == UNION {nd.events : nd \in doc.nodes}

DocBindingIds(doc) == UNION {{x.binding_id : x \in nd.actions} : nd \in doc.nodes}

DocActionIds(doc) == UNION {{x.action.id : x \in nd.actions} : nd \in doc.nodes}

\* C5: when a rollback returns true, every node, event, action and binding of
\* the target document exists afterwards and no node, event or binding of
\* the project that the document lacks remains.
C5_NoPartialSuccess ==
    \A p \in Projects :
       (last.op = "rollback" /\ last.ok /\ HasEntry(history, p, last.args[2]))
          => LET doc == DocOf(history, p, last.args[2])
             IN /\ CurrentNodes(Db, p) = DocNodeIds(doc)
                /\ EventIdsOf(Db, CurrentNodes(Db, p)) = DocEventIds(doc)
                /\ {b.id : b \in {x \in bindings : x.source \in CurrentNodes(Db, p)}}
                      = DocBindingIds(doc)
                /\ DocActionIds(doc) \subseteq Ids(actions)

\* C7: a successful rollback adds exactly one ledger entry, of kind
\* "rollback_point", whose document is the project's state just before the
\* rollback, and rolling back to that entry gives that state back -- here for
\* the projects whose scenes the restore does not shorten.
C7_RollbackPointRestores ==
    [][\A p \in Projects : \A sid \in 1..cap.snap :
          \A f \in FaultsOf(Db, history, p, sid) :
             (ScenesFit /\ Rollback(p, sid, f) /\ last'.ok)
                => LET entry == history'[Len(history')]
                       again == ApplySnapshotSafe(Db', p, entry.doc, NoFault)
                   IN /\ {history'[i].id : i \in 1..Len(history')}
                            \ {history[i].id : i \in 1..Len(history)} = {entry.id}
                      /\ entry.op = "rollback_point"
                      /\ entry.doc = CreateCurrentSnapshot(Db, p)
                      /\ ~again.raised /\ ~again.aborted
                      /\ again.db = Db]_vars
\* C6: whatever snapshots, rollbacks and snapshot deletions were made, the
\* project's ledger holds at most 5 entries; after 5 or more save_snapshot
\* calls in a row get_project_history returns exactly 5 entries, the 5 most
\* recently saved, newest first.
C6_HistoryCap ==
    \A p \in Projects :
       /\ Len(EntriesOf(history, p)) <= HistoryLimit
       /\ (last.op = "create_snapshot" /\ last.args[1] >= HistoryLimit)
             => LET got == GetProjectHistory(history, p)
                IN /\ Len(got) = HistoryLimit
                   /\ \A i \in 1..HistoryLimit : got[i].id = nextId.snap - i

\* Six snapshots in a row: the first of them has been pruned.
C6_Witness ==
    /\ last.op = "create_snapshot"
    /\ last.args[1] > HistoryLimit
    /\ Len(history) = HistoryLimit
    /\ history[1].id = nextId.snap - HistoryLimit

\* The second of two rollbacks in a row to the same target sid.
SecondRollback(p, sid) ==
    /\ last.op = "rollback" /\ last.ok /\ last.args[2] = sid
    /\ Rollback(p, sid, NoFault)

\* C8 as stated: rollback(project, S) twice in a row succeeds both times and
\* the second call leaves the graph as the first left it, also when the
\* ledger held 5 entries and S was the oldest.
C8_RollbackTwice ==
    [][\A p \in Projects : \A sid \in 1..cap.snap :
          SecondRollback(p, sid) => (last'.ok /\ Db' = Db)]_vars

\* C8 amended: after a successful rollback to S, a second rollback to S
\* leaves the graph as the first left it; it succeeds exactly when S is still
\* in the ledger, which it is whenever the ledger holds fewer than 5 entries
\* after the first call (the first call pruned S if the ledger held 5 entries
\* and S was the oldest).
C8_RollbackTwiceWhileTargetKept ==
    [][\A p \in Projects : \A sid \in 1..cap.snap :
          SecondRollback(p, sid)
             => /\ Db' = Db
                /\ last'.ok <=> HasEntry(history, p, sid)
                /\ Len(EntriesOf(history, p)) < HistoryLimit => HasEntry(history, p, sid)]_vars

\* Two successful rollbacks in a row to a target that holds a node, on a full
\* ledger.
C8_Witness ==
    /\ last.op = "rollback" /\ last.ok /\ last.args[1] >= 2
    /\ nodes # {}
    /\ Len(history) = HistoryLimit

\* C9: the start node of the in-memory graph is None or the id of one of its
\* nodes, whatever was created, removed, chosen as start node or loaded.
C9_StartNodeExists ==
    graph.start = Null \/ graph.start \in NodeIdsOf(graph)

RemovedStartNode ==
    last.op = "graph_remove_node" /\ last.ok /\ last.args[1] = last.args[2]

C11_CreateNodeSetsStart ==
    [][/\ \A p \in Projects : \A sc \in SceneLens :
             CreateNode(p, sc)
                => projStart'[p] = (IF projStart[p] = Null THEN nextId.node
                                    ELSE projStart[p])
       /\ GraphCreateNode
             => graph'.start = (IF graph.start = Null THEN graph.next.node
                                ELSE graph.start)]_vars

\* The events of node n of the graph.
GraphEventsOf(g, n) ==
    UNION {{g.nodes[i].events[j] : j \in 1..Len(g.nodes[i].events)}
           : i \in {k \in 1..Len(g.nodes) : g.nodes[k].id = n}}

ReachUniverse(g) ==
    NodeIdsOf(g) \cup
    UNION {{g.nodes[i].out[j].tnode : j \in 1..Len(g.nodes[i].out)} \ {Null}
           : i \in 1..Len(g.nodes)}

\* S is closed under following the key bindings that have a target node.
KeyClosed(g, S) ==
    \A i \in 1..Len(g.nodes) :
       g.nodes[i].id \in S
          => \A j \in 1..Len(g.nodes[i].out) :
                (g.nodes[i].out[j].action.is_key /\ g.nodes[i].out[j].tnode # Null)
                   => g.nodes[i].out[j].tnode \in S

\* The least set that contains the start node and is closed under the key
\* bindings; empty when the start node is unset or not in the graph.
KeyClosure(g) ==
    IF g.start = Null \/ g.start \notin NodeIdsOf(g) THEN {}
    ELSE {x \in ReachUniverse(g) :
            \A S \in SUBSET ReachUniverse(g) : (g.start \in S /\ KeyClosed(g, S)) => x \in S}

\* C13: get_reachable_nodes returns (it does not raise) exactly the least set
\* of ids that contains the start node and is closed under the key bindings
\* with a target node; the empty set when the start node is unset or not in
\* the graph; it expands each node at most once; every id it returns is a
\* node of the graph.
C13_ReachableIsKeyClosure ==
    last.op = "get_reachable_nodes"
       => LET r == GetReachableNodes(graph)
          IN /\ last.ok
             /\ last.args[1] = KeyClosure(graph)
             /\ (graph.start = Null \/ graph.start \notin NodeIdsOf(graph))
                   => last.args[1] = {}
             /\ \A i, j \in 1..Len(r.order) : i # j => r.order[i] # r.order[j]
             /\ last.args[1] \subseteq NodeIdsOf(graph)

Range(s) == {s[i] : i \in 1..Len(s)}

\* C14: in every graph state get_unreachable_nodes returns (it does not
\* raise) nodes that are disjoint from the ids get_reachable_nodes returns
\* and that together with them are exactly the nodes of the graph, and the
\* 'unreachable_nodes' of validate_graph are exactly those nodes.
C14_UnreachableIsComplement ==
    /\ last.op = "get_unreachable_nodes"
          => /\ last.ok
             /\ ~GetReachableNodes(graph).raised
             /\ Range(last.args[1]) \cap GetReachableNodes(graph).visited = {}
             /\ Range(last.args[1]) \cup GetReachableNodes(graph).visited = NodeIdsOf(graph)
    /\ last.op = "validate_graph"
          => /\ last.ok
             /\ ~GetUnreachableNodes(graph).raised
             /\ last.args[1] = GetUnreachableNodes(graph).nodes

\* The call before this one saved a ledger entry: a manual snapshot, or the
\* rollback point of a rollback that succeeded.
JustSaved == last.op \in {"create_snapshot", "rollback"} /\ last.ok

\* C15: get_history returns the project's entries newest first and at most 5
\* of them; right after a save_snapshot (the rollback point of a successful
\* rollback included) the saved entry is the first element of get_history and
\* the entry get_latest returns; get_latest returns none when the project has
\* no entry.
C15_HistoryNewestFirst ==
    [][\A p \in Projects :
          /\ GetHistory(p)
                => LET got == last'.args[1]
                       all == EntriesOf(history, p)
                   IN /\ Len(got) = Min(Len(all), HistoryLimit)
                      /\ \A i \in 1..Len(got) : got[i] = all[Len(all) + 1 - i].id
                      /\ \A i, j \in 1..Len(got) : i < j => got[i] > got[j]
                      /\ JustSaved => got[1] = nextId.snap - 1
          /\ GetLatest(p)
                => /\ JustSaved => last'.args[1] = nextId.snap - 1
                   /\ EntriesOf(history, p) = <<>> <=> last'.args[1] = Null
                   /\ EntriesOf(history, p) # <<>>
                         => last'.args[1] = GetProjectHistory(history, p)[1].id]_vars

\* get_history right after a rollback on a full ledger: five entries, the
\* rollback point first.
C15_Witness ==
    /\ last.op = "get_history"
    /\ Len(last.args[1]) = HistoryLimit
    /\ history[Len(history)].op = "rollback_point"
    /\ last.args[1][1] = nextId.snap - 1

\* C16: a ledger entry, once written, keeps its document and its metadata
\* through every later operation -- edits of the live project, snapshots,
\* rollbacks (also one that has this entry as its target) -- and it leaves the
\* ledger only when save_snapshot prunes it or delete_snapshot deletes it.
C16_EntriesImmutable ==
    [][\A i \in 1..Len(history) :
          LET entry == history[i]
          IN IF \E j \in 1..Len(history') : history'[j].id = entry.id
             THEN \E j \in 1..Len(history') : history'[j] = entry
             ELSE \/ last'.op = "delete_snapshot" /\ last'.args[1] = entry.id
                  \/ /\ last'.op \in {"create_snapshot", "rollback"} /\ last'.ok
                     /\ entry.id \in OldEntryIds(history, entry.project)]_vars

\* A rollback has succeeded whose target is still in the ledger with a scene
\* longer than the one the rollback wrote to the live node.
C16_Witness ==
    /\ last.op = "rollback" /\ last.ok
    /\ \E p \in Projects :
          /\ HasEntry(history, p, last.args[2])
          /\ \E nd \in DocOf(history, p, last.args[2]).nodes : nd.scene > SceneLimit
    /\ \E n \in nodes : n.scene = SceneLimit

C18_UnknownSnapshotRejected ==
    [][\A p \in AllProjects : \A sid \in 1..cap.snap :
          (Rollback(p, sid, NoFault) /\ ~HasEntry(history, p, sid))
             => /\ ~last'.ok
                /\ Db' = Db
                /\ history' = history
                /\ nextId' = nextId]_vars

\* A rollback of a project that has a node was asked for a snapshot of the
\* other project, and failed.
C18_Witness ==
    /\ last.op = "rollback" /\ ~last.ok
    /\ \E i \in 1..Len(history) :
          history[i].id = last.args[2] /\ history[i].project # last.args[3]
    /\ \E n \in nodes : n.project = last.args[3]

\* C19: for a graph g built by create_node, attach_event and bind_action,
\* from_dict(g.to_dict()) has the title, the metadata, the start node and the
\* node ids of g, and each node has the same scene, metadata, number of
\* events and number of outgoing bindings, each binding with its action's
\* is_key_action flag and its target node id or target event.
C19_SerializationRoundTrip ==
    [][GraphFromDict(ToDict(graph))
          => /\ graph'.title = graph.title
             /\ graph'.metadata = graph.metadata
             /\ graph'.start = graph.start
             /\ NodeIdsOf(graph') = NodeIdsOf(graph)
             /\ \A n \in NodeIdsOf(graph) :
                   LET old == NodeOf(graph, n)
                       new == NodeOf(graph', n)
                   IN /\ new.scene = old.scene
                      /\ new.metadata = old.metadata
                      /\ Len(new.events) = Len(old.events)
                      /\ Len(new.out) = Len(old.out)
                      /\ \A j \in 1..Len(old.out) :
                            /\ new.out[j].action.is_key = old.out[j].action.is_key
                            /\ new.out[j].tnode = old.out[j].tnode
                            /\ new.out[j].tevent = old.out[j].tevent]_vars

\* A graph has been loaded from its own dict that has a key binding to a node
\* that comes later in the dict and a regular binding to an event.
C19_Witness ==
    /\ last.op = "from_dict"
    /\ \E i \in 1..Len(graph.nodes) : \E j \in 1..Len(graph.nodes[i].out) :
          \E k \in (i + 1)..Len(graph.nodes) :
             graph.nodes[i].out[j].tnode = graph.nodes[k].id
    /\ \E i \in 1..Len(graph.nodes) : \E j \in 1..Len(graph.nodes[i].out) :
          graph.nodes[i].out[j].tevent # Null

\* The tables a step from db1 to db2 has changed.
Changed(db1, db2) ==
    {t \in {"start", "nodes", "events", "actions", "bindings"} : db1[t] # db2[t]}

\* The faults that can strike the teardown of a rollback of project p.
TeardownFaults(db, p) ==
    {NoFault} \cup {f \in StepsOf(db, p, [start |-> Null, nodes |-> {}]) :
                       PhaseOf(f).step = "teardown"}

\* C20: the teardown of a rollback clears the start node, then deletes the
\* bindings of the project's nodes, then the collected actions, then the
\* events, then the nodes -- each step touching its own table only and
\* removing what it is meant to remove -- and after every step no remaining
\* row references a deleted one: no binding a deleted action, event or node,
\* no action a deleted event, no event a deleted node, the project no deleted
\* start node.  Without a failing statement the teardown runs to its end.
\* Stated of every state a rollback can start from (the ledger has an entry
\* of the project), for every statement of the teardown that can fail.
C20_TeardownOrder ==
    \A p \in Projects :
       EntriesOf(history, p) # <<>>
          => \A f \in TeardownFaults(Db, p) :
                \A st \in {TeardownSteps(Tx(Db), p, f)} :
                   \A cur \in {CurrentNodes(Db, p)} :
                      /\ \A i \in 1..6 : ForeignKeysHold(st[i].db)
                      /\ Changed(st[1].db, st[2].db) \subseteq {"start"}
                      /\ Changed(st[2].db, st[3].db) \subseteq {"bindings"}
                      /\ Changed(st[3].db, st[4].db) \subseteq {"actions"}
                      /\ Changed(st[4].db, st[5].db) \subseteq {"events"}
                      /\ Changed(st[5].db, st[6].db) \subseteq {"nodes"}
                      /\ st[6] = SafeDeleteProjectData(Tx(Db), p, f)
                      /\ f = NoFault
                            => /\ \A i \in 1..6 : ~st[i].aborted /\ ~st[i].raised
                               /\ st[2].db.start[p] = Null
                               /\ \A b \in st[3].db.bindings : b.source \notin cur
                               /\ Ids(st[4].db.actions) \cap CollectActionIds(Db, cur) = {}
                               /\ \A e \in st[5].db.events : e.node \notin cur
                               /\ CurrentNodes(st[6].db, p) = {}

\* A rollback has succeeded on a project that had a start node, an event, an
\* action attached to that event and a binding of the action: the rollback
\* point shows what the teardown had to remove.
C20_Witness ==
    /\ last.op = "rollback" /\ last.ok
    /\ LET doc == history[Len(history)].doc
       IN /\ history[Len(history)].op = "rollback_point"
          /\ doc.start # Null
          /\ \E nd \in doc.nodes : nd.events # {} /\ nd.actions # {}

\* The actions that belong to project p: bound from one of its nodes, or
\* attached to an event of one of its nodes.
ProjectActions(db, p) ==
    {a.id : a \in {x \in db.actions :
        \/ \E b \in db.bindings : \E n \in db.nodes :
              b.action = x.id /\ b.source = n.id /\ n.project = p
        \/ \E e \in db.events : \E n \in db.nodes :
              x.event = e.id /\ e.node = n.id /\ n.project = p}}

\* C21: the teardown of a rollback leaks no action: the action ids collected
\* before the first deletion contain every action bound from a node of the
\* project and every action attached to an event of a node of the project,
\* and when the teardown has run to its end none of them is left in the
\* store.  Stated of every state a rollback can start from, for every
\* statement of the teardown that can fail.
C21_TeardownLeaksNoAction ==
    \A p \in Projects :
       EntriesOf(history, p) # <<>>
          => \A f \in TeardownFaults(Db, p) :
                \A st \in {TeardownSteps(Tx(Db), p, f)} :
                   \A ids \in {CollectActionIds(st[2].db, CurrentNodes(Db, p))} :
                      /\ ProjectActions(Db, p) \subseteq ids
                      /\ f = NoFault => ~st[6].raised
                      /\ ~st[6].raised => ids \cap Ids(st[6].db.actions) = {}

\* A rollback to a snapshot of the empty project has succeeded on a project
\* that had a bound action: no action is left.
C21_Witness ==
    /\ last.op = "rollback" /\ last.ok
    /\ history[Len(history)].op = "rollback_point"
    /\ \E nd \in history[Len(history)].doc.nodes : nd.actions # {}
    /\ actions = {}

\* The positions of the adds of the given kinds.
AddsOf(adds, kinds) == {i \in 1..Len(adds) : adds[i].kind \in kinds}

\* C22: the reconstruction of a rollback is two-pass: every node of the
\* target document and every event of it is created, with its original id,
\* before the first action or binding is created, so that when a binding is
\* created its source node has been created and so has its target node if
\* that is a node of the document.  Stated of every target a rollback can be
\* given and every step of the reconstruction that can fail (an event whose
\* creation fails is not created at all); what is created is what the flush
\* writes.
C22_TwoPassReconstruction ==
    \A p \in Projects : \A sid \in 1..cap.snap :
       HasEntry(history, p, sid)
          => \A doc \in {DocOf(history, p, sid)} :
                \A f \in RecreateFaults(Db, p, doc) :
                   \A adds \in {RecreateAdds(doc, f)} :
                      /\ \A i \in AddsOf(adds, {"node", "event"}) :
                            \A j \in AddsOf(adds, {"action", "binding"}) : i < j
                      /\ {adds[i].id : i \in AddsOf(adds, {"node"})} = DocNodeIds(doc)
                      /\ {adds[i].id : i \in AddsOf(adds, {"event"})}
                            = {e \in DocEventIds(doc) : ~Hits(f, "create_event", e)}
                      /\ \A j \in AddsOf(adds, {"binding"}) :
                            /\ \E i \in AddsOf(adds, {"node"}) :
                                  i < j /\ adds[i].id = adds[j].source
                            /\ adds[j].tnode \in DocNodeIds(doc)
                                  => \E i \in AddsOf(adds, {"node"}) :
                                        i < j /\ adds[i].id = adds[j].tnode
                      /\ \A entries \in {ActionEntriesOf(doc, f)} :
                            /\ {adds[i].id : i \in AddsOf(adds, {"node"})}
                                  = Ids(NodeRowsOf(doc, p))
                            /\ {adds[i].id : i \in AddsOf(adds, {"event"})}
                                  = Ids(EventRowsOf(doc, f))
                            /\ {adds[i].id : i \in AddsOf(adds, {"action"})}
                                  = Ids(ActionRowsOf(entries))
                            /\ {adds[i].id : i \in AddsOf(adds, {"binding"})}
                                  = Ids(BindingRowsOf(entries, f))

\* A rollback has succeeded to a document in which the first node has a
\* binding whose target is the second node, and both nodes and the binding
\* are back.
C22_Witness ==
    /\ last.op = "rollback" /\ last.ok
    /\ \E p \in Projects :
          /\ HasEntry(history, p, last.args[2])
          /\ \E nd \in DocOf(history, p, last.args[2]).nodes :
                \E x \in nd.actions : x.tnode > nd.id /\ x.binding_id \in Ids(bindings)
    /\ Cardinality(nodes) = 2

\* C23: at the end of a successful rollback the project's start node is the
\* start node recorded in the target document if that is one of the nodes
\* just recreated for this project, and null otherwise (the document has no
\* start node, or its start node is not a recreated node); it is never the id
\* of a node that does not exist.
C23_StartNodeRestoredIfRecreated ==
    \A p \in AllProjects :
       (last.op = "rollback" /\ last.ok /\ last.args[3] = p
            /\ HasEntry(history, p, last.args[2]))
          => \A doc \in {DocOf(history, p, last.args[2])} :
                /\ CurrentNodes(Db, p) = DocNodeIds(doc)
                /\ projStart[p] = IF doc.start # Null /\ doc.start \in DocNodeIds(doc)
                                  THEN doc.start ELSE Null
                /\ projStart[p] = Null \/ projStart[p] \in Ids(nodes)

\* A rollback has succeeded to a document that holds a node and whose start
\* node is a node of the other project, which still exists: the project has
\* its node back and no start node.
C23_Witness ==
    /\ last.op = "rollback" /\ last.ok
    /\ \E p \in AllProjects :
          /\ last.args[3] = p
          /\ HasEntry(history, p, last.args[2])
          /\ \E n \in nodes :
                n.id = DocOf(history, p, last.args[2]).start /\ n.project # p
          /\ CurrentNodes(Db, p) # {}
          /\ projStart[p] = Null

\* C24: within one rollback the capture of the current state is taken before
\* any entity is deleted or modified, and the rollback-point entry is written
\* only after the teardown and the reconstruction have both run to their end
\* without raising; a rollback that fails writes no ledger entry.  Stated of
\* every state a rollback can start from, every target of the project and
\* every step that can fail.
C24_CaptureFirstLedgerLast ==
    \A p \in Projects : \A sid \in 1..cap.snap :
       HasEntry(history, p, sid)
          => \A f \in FaultsOf(Db, history, p, sid) :
                \A tr \in {RestoreTrace(Db, history, p, sid, nextId.snap, f)} :
                   \A r \in {RestoreSnapshot(Db, history, p, sid, nextId.snap, f)} :
                      /\ {i \in 1..Len(tr) : tr[i].step = "capture"} = {1}
                      /\ tr[1].db = Db
                      /\ tr[1].captured = CreateCurrentSnapshot(Db, p)
                      /\ \A i \in 1..Len(tr) :
                            tr[i].history # history
                               => /\ \E j \in 1..Len(tr) : \E k \in 1..Len(tr) :
                                        /\ tr[j].step = "teardown" /\ tr[k].step = "recreate"
                                        /\ j < k /\ k < i
                                        /\ CurrentNodes(tr[j].db, p) = {}
                                  /\ tr[i].history
                                        = SaveSnapshot(history, p, nextId.snap,
                                                       tr[1].captured, "rollback_point")
                                  /\ r.ok
                      /\ tr[Len(tr)].step = IF r.ok THEN "return_true" ELSE "return_false"
                      /\ tr[Len(tr)].db = r.db
                      /\ tr[Len(tr)].history = r.history
                      /\ PhaseOf(f).step \in {"teardown", "recreate"} /\ ~r.ok
                            => r.history = history
                      /\ ~r.ok => r.history = history /\ r.db = Db

\* A rollback of a project that has a node has failed in the reconstruction,
\* and the ledger holds the captured snapshot alone; it has no rollback point.
C24_Witness ==
    /\ last.op = "rollback" /\ ~last.ok
    /\ last.fault.step = "recreate"
    /\ nodes # {}
    /\ Len(history) = 1
    /\ history[1].op = "manual"

\* The capture without a failing statement is the document of
\* _create_current_snapshot.
CaptureAgrees ==
    \A p \in Projects :
       CaptureWithFault(Db, p, NoFault) = [doc |-> CreateCurrentSnapshot(Db, p),
                                           aborted |-> FALSE]

\* C25: if serializing one node, one event or one binding fails during the
\* capture, only that is omitted: the snapshot operation succeeds and stores
\* a document that holds every other node of the project, and of every such
\* node every other event and every other binding.
C25_PartialCaptureStored ==
    \A p \in Projects :
       (last.op = "create_snapshot" /\ last.fault # NoFault)
          => /\ last.ok
             /\ LET f == last.fault
                    doc == history[Len(history)].doc
                    failedNodes == IF f.step \in {"query_events", "query_bindings", "ser_node"}
                                   THEN {f.id} ELSE {}
                    failedEvents == IF f.step = "ser_event" THEN {f.id} ELSE {}
                    failedBindings == IF f.step \in {"load_action", "ser_binding"}
                                      THEN {f.id} ELSE {}
                IN /\ history[Len(history)].id = nextId.snap - 1
                   /\ DocNodeIds(doc) = CurrentNodes(Db, p) \ failedNodes
                   /\ \A nd \in doc.nodes :
                         /\ nd.events = EventIdsOf(Db, {nd.id}) \ failedEvents
                         /\ {x.binding_id : x \in nd.actions}
                               = {b.id : b \in {y \in bindings : y.source = nd.id}}
                                    \ failedBindings

\* One session alone runs save_snapshot as SaveSnapshot does.
SnapshotStepsAgree ==
    \A c \in Callers :
       (calls[c].pc = "inserted" /\ InFlight = {c}
            /\ calls[c].old = OldEntryIds(history, calls[c].project))
          => Append(SelectSeq(history, LAMBDA e : e.id \notin calls[c].old),
                    [id |-> nextId.snap, project |-> calls[c].project,
                     op |-> "manual", doc |-> calls[c].doc])
                = SaveSnapshot(history, calls[c].project, nextId.snap, calls[c].doc, "manual")

\* C26: the cap of 5 ledger entries per project holds without a lock when two
\* save_snapshot calls for the same project interleave step by step (read
\* the entries beyond the 4 newest, delete them, insert the new entry,
\* commit): once both calls have completed the project has at most 5 entries.
C26_CapHoldsUnderInterleaving ==
    \A p \in Projects :
       InFlight = {} => Len(EntriesOf(history, p)) <= HistoryLimit

\* The nodes (with their scenes), events and bindings of project p in the
\* tables, and those a document holds.
EntitiesOf(db, p) ==
    LET cur == CurrentNodes(db, p)
    IN [nodes |-> {[id |-> n.id, scene |-> n.scene] : n \in {m \in db.nodes : m.project = p}},
        events |-> EventIdsOf(db, cur),
        bindings |-> {b.id : b \in {x \in db.bindings : x.source \in cur}}]

EntitiesIn(doc) ==
    [nodes |-> {[id |-> nd.id, scene |-> nd.scene] : nd \in doc.nodes},
     events |-> DocEventIds(doc),
     bindings |-> DocBindingIds(doc)]

\* A rollback that captured in one state and applies with no step of another
\* call in between keeps every entity in its rollback point.
SequentialRollbackKeepsAll ==
    \A c \in Callers :
       calls[c].pc = "captured" /\ calls[c].doc = CreateCurrentSnapshot(Db, calls[c].project)
          => \A k \in {"nodes", "events", "bindings"} :
                EntitiesOf(Db, calls[c].project)[k] \subseteq EntitiesIn(calls[c].doc)[k]

\* C27: no edit is silently unrecoverable through a rollback: when another
\* editor call creates or changes a node, an event or a binding of the
\* project between the capture of a rollback and its teardown, then after the
\* rollback has succeeded every node, event and binding the project had just
\* before the teardown is still in the project or is held by the
\* rollback-point document.
C27_NoEditLostByRollback ==
    [][\A c \in Callers :
          (RollbackApply(c) /\ last'.ok)
             => \A k \in {"nodes", "events", "bindings"} :
                   EntitiesOf(Db, calls[c].project)[k]
                      \subseteq (EntitiesOf(Db', calls[c].project)[k]
                                   \cup EntitiesIn(history'[Len(history')].doc)[k])]_vars

\* The rows that belong to project p: its nodes, the events of its nodes, the
\* bindings that start from its nodes, and the actions bound from its nodes
\* or attached to its events.
RowsOf(db, p) ==
    LET cur == CurrentNodes(db, p)
    IN [nodes |-> {n \in db.nodes : n.project = p},
        events |-> {e \in db.events : e.node \in cur},
        bindings |-> {b \in db.bindings : b.source \in cur},
        actions |-> {a \in db.actions : a.id \in ProjectActions(db, p)},
        start |-> db.start[p]]

HistoryIds(h, p) ==
    LET got == GetProjectHistory(h, p) IN {got[i].id : i \in 1..Len(got)}

\* C29 as stated: a successful rollback never removes its own target from
\* the ledger: whatever the size of the ledger and the position of the target
\* in it, the target is among the entries get_project_history returns after
\* restore_snapshot has returned true.
C29_TargetKept ==
    \A p \in Projects : \A sid \in 1..cap.snap :
       (HasEntry(history, p, sid) /\ nextId.snap <= cap.snap)
          => \A r \in {RestoreSnapshot(Db, history, p, sid, nextId.snap, NoFault)} :
                r.ok => sid \in HistoryIds(r.history, p)

\* C29 amended: after a successful rollback the target is still in the
\* ledger, and among the entries get_project_history returns, unless the
\* ledger held 5 entries and the target was the oldest of them: then the save
\* of the rollback point has pruned it.
C29_TargetKeptUnlessOldestOfFull ==
    \A p \in Projects : \A sid \in 1..cap.snap :
       (HasEntry(history, p, sid) /\ nextId.snap <= cap.snap)
          => \A r \in {RestoreSnapshot(Db, history, p, sid, nextId.snap, NoFault)} :
                \A before \in {EntriesOf(history, p)} :
                   r.ok => /\ HasEntry(r.history, p, sid) <=> sid \in HistoryIds(r.history, p)
                           /\ sid \in HistoryIds(r.history, p)
                                 <=> ~(Len(before) = HistoryLimit /\ before[1].id = sid)

\* A rollback has succeeded and has left a full ledger whose oldest entry is
\* the target, still there.
C29_Witness ==
    /\ last.op = "rollback" /\ last.ok
    /\ Len(history) = HistoryLimit
    /\ history[1].id = last.args[2]
    /\ history[HistoryLimit].op = "rollback_point"

\* C30: a project in which one action is referenced by two bindings, from
\* one node or from two nodes of the project, can be captured and rolled back
\* to: the rollback to the snapshot just taken succeeds, the action exists
\* exactly once afterwards, and both bindings exist and reference it.
C30_SharedActionRestored ==
    \A p \in Projects :
       (/\ last.op = "create_snapshot"
        /\ nextId.snap <= cap.snap
        /\ \E b1 \in bindings : \E b2 \in bindings : b1.id # b2.id /\ b1.action = b2.action)
          => \A r \in {RestoreSnapshot(Db, history, p, nextId.snap - 1, nextId.snap, NoFault)} :
                /\ r.ok
                /\ \A b \in bindings :
                      /\ b \in r.db.bindings
                      /\ Cardinality({a \in r.db.actions : a.id = b.action}) = 1
====
